---- MODULE Spec2Model ----
(***************************************************************************)
(* A model of the candidate-sourcing engine of wooloolies/gaither:         *)
(*   - HunterAgent (backend/agents/hunter.py): the parallel search         *)
(*     executor, the two strategy kinds, the dedup set, the output channel *)
(*   - AnalyzerAgent.execute (backend/agents/analyzer.py)                  *)
(*   - GitHubService (backend/services/github_service.py): the rate-limit  *)
(*     gate and the retry loop of one client request                       *)
(*                                                                         *)
(* Spec       : one run of the Sourcing -> Analysis pipeline.  A client    *)
(*              call of a strategy is a suspension point whose outcome is  *)
(*              one of the outcomes the client has (value, RateLimitError, *)
(*              another exception).                                        *)
(* ClientSpec : one caller of GitHubService._request_with_retry with the   *)
(*              clock, the two buckets, the response headers, the retries. *)
(* RaceSpec   : the callers of one batch using the client concurrently.    *)
(* FairSpec, ClientFairSpec : the same with the event loop's fairness.     *)
(***************************************************************************)
EXTENDS Integers, Sequences, FiniteSets, TLC

(***************************************************************************)
(* Bounds of the model                                                     *)
(***************************************************************************)
NumUsers == 2
MaxStrategies == 4
MaxFetches == 2
MaxRepos == 1

Users == 1..NumUsers

(***************************************************************************)
(* Program constants                                                       *)
(***************************************************************************)
\* hunter.py:442  batch_size = 3
batch_size == 3
\* config.py:40  MAX_CANDIDATES_PER_JOB (read from the environment; the
\* model runs with a cap the bounded user universe can reach)
MAX_CANDIDATES_PER_JOB == 2
\* hunter.py:549  repos[:3]
TopRepos == 3
\* hunter.py:585 / 670  the acceptance threshold of the quality score
MinQuality == 3

(***************************************************************************)
(* Data                                                                    *)
(***************************************************************************)
\* The profile the platform returns for a username (response.json() of
\* get_user), reduced to the fields the filter chain and the score read.
ProfileOf(u) ==
  CASE u = 1 -> [login |-> 1, type |-> "User", org_marker |-> FALSE,
                 public_repos |-> 20, followers |-> 100, following |-> 50,
                 bio_len |-> 50, has_name |-> TRUE, has_contact |-> TRUE,
                 hireable |-> TRUE]
    [] u = 2 -> [login |-> 2, type |-> "User", org_marker |-> FALSE,
                 public_repos |-> 10, followers |-> 25, following |-> 0,
                 bio_len |-> 20, has_name |-> TRUE, has_contact |-> FALSE,
                 hireable |-> FALSE]
    [] OTHER -> [login |-> u, type |-> "User", org_marker |-> FALSE,
                 public_repos |-> 5, followers |-> 5, following |-> 5,
                 bio_len |-> 20, has_name |-> TRUE, has_contact |-> FALSE,
                 hireable |-> FALSE]

\* hunter.py:740-785
UncappedScore(p) ==
  LET repos == IF p.public_repos >= 20 THEN 3
               ELSE IF p.public_repos >= 10 THEN 2
               ELSE IF p.public_repos >= 5 THEN 1 ELSE 0
      bio == IF p.bio_len >= 50 THEN 2 ELSE IF p.bio_len >= 20 THEN 1 ELSE 0
      name == IF p.has_name THEN 1 ELSE 0
      contact == IF p.has_contact THEN 1 ELSE 0
      fol == IF p.followers >= 100 THEN 2
             ELSE IF p.followers >= 25 THEN 1 ELSE 0
      hire == IF p.hireable THEN 1 ELSE 0
      ratio == IF p.followers > 0 /\ p.following > 0
                  /\ 10 * p.followers >= 3 * p.following
                  /\ p.followers <= 10 * p.following
               THEN 1 ELSE 0
  IN repos + bio + name + contact + fol + hire + ratio

ScoreCappedAt9(p) == IF UncappedScore(p) < 9 THEN UncappedScore(p) ELSE 9

_calculate_quality_score(p) ==
  LET repos == IF p.public_repos >= 20 THEN 3
               ELSE IF p.public_repos >= 10 THEN 2
               ELSE IF p.public_repos >= 5 THEN 1 ELSE 0
      bio == IF p.bio_len >= 50 THEN 2 ELSE IF p.bio_len >= 20 THEN 1 ELSE 0
      name == IF p.has_name THEN 1 ELSE 0
      contact == IF p.has_contact THEN 1 ELSE 0
      fol == IF p.followers >= 100 THEN 2
             ELSE IF p.followers >= 25 THEN 1 ELSE 0
      hire == IF p.hireable THEN 1 ELSE 0
      \* 0.3 <= followers / following <= 10
      ratio == IF p.followers > 0 /\ p.following > 0
                  /\ 10 * p.followers >= 3 * p.following
                  /\ p.followers <= 10 * p.following
               THEN 1 ELSE 0
      score == repos + bio + name + contact + fol + hire + ratio
  IN IF score < 10 THEN score ELSE 10

\* hunter.py:628-659  hard rejects 1-6 of _process_github_users
RejectsOrganizations(p) == p.type = "Organization" \/ p.org_marker

HardReject(p) ==
  \/ p.type = "Organization"
  \/ p.org_marker
  \/ (p.public_repos > 100 /\ p.followers < 50)
  \/ p.public_repos < 3
  \/ (p.following > p.followers * 3 /\ p.followers > 10)
  \/ (~(p.bio_len > 0) /\ ~(p.public_repos >= 10 \/ p.followers >= 50))

\* hunter.py:682-703
_build_candidate_profile(p, quality_score) ==
  [username |-> p.login, quality_score |-> quality_score,
   public_repos |-> p.public_repos, followers |-> p.followers]

\* The end-of-stream marker (None) of the two channels.
None == [username |-> 0, quality_score |-> 0, public_repos |-> 0,
         followers |-> 0]


(***************************************************************************)
(* State                                                                   *)
(***************************************************************************)
VARIABLES
  hunterPc,                 \* position of HunterAgent.execute
  existing_usernames,       \* the argument of this run
  strategies,               \* the strategy list handed to the executor
  batch_idx,                \* the batch the executor is waiting for
  task,                     \* one coroutine per strategy (asyncio.gather)
  _processed_usernames,     \* HunterAgent._processed_usernames
  fetches,                  \* profile fetches dispatched in this run
  all_candidates,           \* the executor's accumulator
  candidates,               \* the list the executor returned to execute
  push_idx,                 \* next candidate execute puts on its channel
  hunter_to_analyzer_queue, \* every item put so far, in order
  analyzer_read,            \* how many of them Analysis has taken
  analyzerPc,               \* position of AnalyzerAgent.execute
  analyzer_candidate,       \* the candidate Analysis holds
  analyzer_output_queue     \* every item Analysis has put, in order

VARIABLES
  now,                           \* the clock, int(time.time())
  _rate_limit_remaining,         \* GitHubService: the general bucket
  _rate_limit_reset,
  _search_rate_limit_remaining,  \* GitHubService: the search bucket
  _search_rate_limit_reset,
  req,                           \* one _request_with_retry per caller
  started,                       \* requests started so far
  headers,                       \* responses so far with rate-limit headers
  failures,                      \* answers so far that led to a retry
  caches,                        \* GitHubService: the three SearchCache dicts
  call                           \* the read operation caller 1 is in, or was

cacheVars == <<caches, call>>

VARIABLES
  platform                       \* what the platform holds for the one hit of
                                 \* a lone user search: profile, repositories

VARIABLES
  orchPc,                        \* position of RecruitingOrchestrator.start_job
  analyzed_candidates,           \* the list start_job collects
  saved,                         \* the candidates _save_results has committed
  job_status,                    \* DBJob.status
  active_connections,            \* WebSocketManager: connections of the job
  publish_failures               \* publishes so far that failed

orchVars == <<orchPc, analyzed_candidates, saved, job_status>>

wsVars == <<active_connections, publish_failures>>

VARIABLES
  keywords,                      \* the keyword bundle of _extract_keywords,
                                 \* each list by its length
  existing_count,                \* len(self._processed_usernames) at the call
  built_strategies,              \* the list _build_search_strategies returns
  strategy_batches               \* the batches the executor groups it into

builderVars == <<keywords, existing_count, built_strategies, strategy_batches>>

VARIABLES
  pipelines,                     \* the run_pipeline_background tasks spawned
                                 \* for the job, in the order of their spawning
  response,                      \* status code of the last start or find-more
                                 \* request
  runs,                          \* two jobs' calls of HunterAgent.execute on
                                 \* the one instance
  _current_job_location,         \* HunterAgent: the instance's attribute
  calls                          \* get_user calls of two concurrent strategies

processVars == <<pipelines, response, runs, _current_job_location, calls>>

sideVars == <<platform, processVars, builderVars, orchVars, wsVars>>

clientVars == <<now, _rate_limit_remaining, _rate_limit_reset,
                _search_rate_limit_remaining, _search_rate_limit_reset,
                req, started, headers, failures, cacheVars>>

pipeVars == <<hunterPc, existing_usernames, strategies, batch_idx, task,
              _processed_usernames, fetches, all_candidates, candidates, push_idx,
              hunter_to_analyzer_queue, analyzer_read, analyzerPc,
              analyzer_candidate, analyzer_output_queue>>

(***************************************************************************)
(* Pure helpers of the executor                                            *)
(***************************************************************************)
\* hunter.py:443-446  strategies[i:i + batch_size]
BatchOf(i) == (i - 1) \div batch_size
BatchMembers(b) == {i \in 1..Len(strategies) : BatchOf(i) = b}
NumBatches == (Len(strategies) + batch_size - 1) \div batch_size

\* hunter.py:705-716
RECURSIVE DedupFrom(_, _)
DedupFrom(cs, seen) ==
  IF cs = <<>> THEN <<>>
  ELSE IF Head(cs).username \in seen THEN DedupFrom(Tail(cs), seen)
  ELSE <<Head(cs)>> \o DedupFrom(Tail(cs), seen \cup {Head(cs).username})

KeepAll(cs) == cs

_deduplicate_candidates(cs) == DedupFrom(cs, {})

\* hunter.py:503  list.sort(key=quality_score, reverse=True): stable
Unsorted(s) == s

RECURSIVE InsertDesc(_, _)
InsertDesc(c, s) ==
  IF s = <<>> THEN <<c>>
  ELSE IF Head(s).quality_score >= c.quality_score
       THEN <<Head(s)>> \o InsertDesc(c, Tail(s))
       ELSE <<c>> \o s

RECURSIVE SortByQuality(_)
SortByQuality(s) ==
  IF s = <<>> THEN <<>>
  ELSE InsertDesc(s[Len(s)], SortByQuality(SubSeq(s, 1, Len(s) - 1)))

\* hunter.py:505  unique_candidates[:MAX_CANDIDATES_PER_JOB]
Truncate(s) ==
  IF Len(s) <= MAX_CANDIDATES_PER_JOB THEN s
  ELSE SubSeq(s, 1, MAX_CANDIDATES_PER_JOB)

\* hunter.py:501-505
ExecutorResult(all) == Truncate(SortByQuality(_deduplicate_candidates(all)))

(***************************************************************************)
(* What the platform can answer                                            *)
(***************************************************************************)
NoProfile == [login |-> 0]

\* A profile with many repositories and few followers (the tutorial-account
\* heuristic of hunter.py:644), one that scores 2 and one that scores 3.
Tutorial(u) == [ProfileOf(u) EXCEPT !.public_repos = 150, !.followers = 10]

Weak(u) ==
  [login |-> u, type |-> "User", org_marker |-> FALSE, public_repos |-> 4,
   followers |-> 5, following |-> 0, bio_len |-> 20, has_name |-> TRUE,
   has_contact |-> FALSE, hireable |-> FALSE]

Modest(u) == [Weak(u) EXCEPT !.public_repos = 5]

\* The profiles get_user may return for a login: an individual's profile,
\* an organisation's, and for the second login the ones above (the first
\* login owns the repositories and is no contributor candidate).
Profiles(u) ==
  {ProfileOf(u), [ProfileOf(u) EXCEPT !.type = "Organization"]} \cup
  (IF u = 2 THEN {Tutorial(u), Weak(u), Modest(u)} ELSE {})

\* hunter.py:306-420: user-search strategies, then at most one
\* repo_contributors_ strategy, the last of the list.
StrategyLists ==
  {[i \in 1..n |-> IF i = n /\ withRepo THEN "repo" ELSE "user"]
   : n \in 0..MaxStrategies, withRepo \in BOOLEAN}

\* The owners of the repositories a repository search returns.
RepoOwners == {1}

\* The usernames already stored for the job (orchestrator.py:41-44).
ExistingChoices == {{}, {1}}

(***************************************************************************)
(* The coroutine of one strategy.  The items of a search page or of a      *)
(* contributor page are read one by one (for user in users), so the model  *)
(* reveals them one by one: the loop head either finds the list exhausted  *)
(* or takes a next item, any username.                                     *)
(***************************************************************************)
IdleTask ==
  [pc |-> "idle", user |-> 0, profile |-> NoProfile, owner |-> 0,
   nrepos |-> 0, cands |-> <<>>, result |-> "none"]

\* The coroutine ends: gather records what it returned or raised.
Settle(t, result) ==
  [t EXCEPT !.pc = "done", !.user = 0, !.owner = 0, !.nrepos = 0,
            !.profile = NoProfile, !.result = result,
            !.cands = IF result = "success" THEN @ ELSE <<>>]

\* hunter.py:620-621 and 565-570: may the loop fetch the profile of item u
SkipsOwner(u, processed, owner) == u = owner

Skips(u, processed, owner) == u \in processed \/ u = owner

\* hunter.py:617-623  the head of the loop of _process_github_users, run up
\* to its next await: items already in the dedup set are skipped, the first
\* other one is fetched; the end of the list ends the strategy.
UserLoop(t, processed, more) ==
  {Settle(t, "success")} \cup
  {[t EXCEPT !.pc = "get_user", !.user = u, !.profile = NoProfile]
   : u \in {v \in Users : more /\ ~Skips(v, processed, 0)}}

\* hunter.py:549-559  the head of the loop over repos[:3]: the end of the
\* list, or a next repository with its owner (one without owner or name is
\* passed over)
RepoLoop(t) ==
  {Settle(t, "success")} \cup
  {[t EXCEPT !.pc = "get_repo_contributors", !.owner = o, !.user = 0,
             !.nrepos = @ + 1]
   : o \in {v \in RepoOwners : t.nrepos < MaxRepos /\ t.nrepos < TopRepos}}

\* hunter.py:562-573, 592  the head of the loop over one repo's
\* contributors: the end of the list leads to the sleep between repos
ContribLoop(t, processed, more) ==
  {[t EXCEPT !.pc = "repo_sleep", !.user = 0, !.profile = NoProfile]} \cup
  {[t EXCEPT !.pc = "contrib_get_user", !.user = u, !.profile = NoProfile]
   : u \in {v \in Users : more /\ ~Skips(v, processed, t.owner)}}

StartTask(kind) ==
  [IdleTask EXCEPT !.pc = IF kind = "repo" THEN "search_repositories"
                          ELSE "search_users"]

InBatch(i) == hunterPc = "gather" /\ i \in BatchMembers(batch_idx)

\* The model's budget of profile fetches for one run.
MoreFetches == fetches < MaxFetches

IsFetch(t) == t.pc \in {"get_user", "contrib_get_user"}

\* Task i moves to nt; a profile fetch it dispatches is counted.
Move(i, nt) ==
  /\ task' = [task EXCEPT ![i] = nt]
  /\ fetches' = IF IsFetch(nt) THEN fetches + 1 ELSE fetches

hunterRest == <<hunterPc, existing_usernames, strategies, batch_idx,
                all_candidates, candidates, push_idx,
                hunter_to_analyzer_queue>>
analyzerVars == <<analyzer_read, analyzerPc, analyzer_candidate,
                  analyzer_output_queue>>

\* The ways search_users ends for its caller: a page of hits, the empty
\* list of a failed request, a RateLimitError, any other exception.
SearchResults == {"value", "empty", "RateLimitError", "Exception"}

\* hunter.py:507-531  _execute_user_search once search_users has ended:
\* the items are processed (none for an empty list) and the strategy
\* succeeds; a RateLimitError is re-raised; another exception is caught
\* and becomes a failed SearchResult.
_execute_user_search(t, result, processed, more) ==
  CASE result = "value" -> UserLoop(t, processed, more)
    [] result = "empty" -> UserLoop(t, processed, FALSE)
    [] result = "RateLimitError" -> {Settle(t, "RateLimitError")}
    [] OTHER -> {Settle(t, "failed")}

\* hunter.py:510-514  await github_service.search_users(...) ends
SearchUsersReturn(i) ==
  /\ InBatch(i)
  /\ task[i].pc = "search_users"
  /\ \E result \in SearchResults :
       \E nt \in _execute_user_search(task[i], result, _processed_usernames,
                                      MoreFetches) : Move(i, nt)
  /\ UNCHANGED <<hunterRest, _processed_usernames, analyzerVars, clientVars>>

\* hunter.py:628-663  get_user has returned the profile p: a hard reject
\* (1-6) passes on to the next hit, a survivor has its recent activity
\* checked
ProfileArrives(i, p) ==
  IF HardReject(p)
  THEN \E nt \in UserLoop(task[i], _processed_usernames, MoreFetches) :
          Move(i, nt)
  ELSE Move(i, [task[i] EXCEPT !.pc = "_check_recent_activity",
                               !.profile = p])

\* hunter.py:623-665  get_user returns None or a profile, or raises; hard
\* rejects 1-6
UserGetUserReturn(i) ==
  /\ InBatch(i)
  /\ task[i].pc = "get_user"
  /\ \/ \E nt \in UserLoop(task[i], _processed_usernames, MoreFetches) :
          Move(i, nt)
     \/ \E p \in Profiles(task[i].user) : ProfileArrives(i, p)
     \/ Move(i, Settle(task[i], "RateLimitError"))
     \/ Move(i, Settle(task[i], "failed"))
  /\ UNCHANGED <<hunterRest, _processed_usernames, analyzerVars, clientVars>>

\* The ways get_user_repos(username, sort="pushed", per_page=5) ends for
\* _check_recent_activity: a list with a repository pushed to in the last
\* 180 days, a list with none, the empty list (no repository, or a request
\* that failed: github_service.py:259-266), an exception.
ReposResults == {"recent", "stale", "empty", "RateLimitError", "Exception"}

\* hunter.py:718-738  _check_recent_activity, from what get_user_repos gave
_check_recent_activity(repos) ==
  CASE repos = "recent" -> TRUE
    [] repos = "stale" -> FALSE
    [] repos = "empty" -> FALSE
    [] OTHER -> TRUE

\* hunter.py:663-678  the activity answer has come: the score, the
\* acceptance
ActivityArrives(i, has_recent) ==
  LET p == task[i].profile
      quality_score == _calculate_quality_score(p)
  IN IF has_recent /\ quality_score >= MinQuality
     THEN /\ Move(i, [task[i] EXCEPT
                !.pc = "sleep", !.profile = NoProfile,
                !.cands = Append(@,
                   _build_candidate_profile(p, quality_score))])
          /\ _processed_usernames' =
                _processed_usernames \cup {task[i].user}
     ELSE /\ \E nt \in UserLoop(task[i], _processed_usernames,
                                MoreFetches) : Move(i, nt)
          /\ UNCHANGED _processed_usernames

\* hunter.py:661-678 with 718-738: get_user_repos ends inside
\* _check_recent_activity
CheckRecentActivityReturn(i) ==
  /\ InBatch(i)
  /\ task[i].pc = "_check_recent_activity"
  /\ \E repos \in ReposResults :
       ActivityArrives(i, _check_recent_activity(repos))
  /\ UNCHANGED <<hunterRest, analyzerVars, clientVars>>

\* hunter.py:678  asyncio.sleep(0.15) returns, the loop goes on
UserSleepReturn(i) ==
  /\ InBatch(i)
  /\ task[i].pc = "sleep"
  /\ \E nt \in UserLoop(task[i], _processed_usernames, MoreFetches) :
       Move(i, nt)
  /\ UNCHANGED <<hunterRest, _processed_usernames, analyzerVars, clientVars>>

\* hunter.py:538-545, 599-605  _execute_repo_contributor_search: the
\* repository search returns or raises; any exception, a RateLimitError
\* included, is caught and becomes a failed SearchResult.
SearchRepositoriesReturn(i) ==
  /\ InBatch(i)
  /\ task[i].pc = "search_repositories"
  /\ \/ \E nt \in RepoLoop(task[i]) : Move(i, nt)
     \/ Move(i, Settle(task[i], "failed"))
  /\ UNCHANGED <<hunterRest, _processed_usernames, analyzerVars, clientVars>>

\* hunter.py:557-573
GetRepoContributorsReturn(i) ==
  /\ InBatch(i)
  /\ task[i].pc = "get_repo_contributors"
  /\ \/ \E nt \in ContribLoop(task[i], _processed_usernames, MoreFetches) :
          Move(i, nt)
     \/ Move(i, Settle(task[i], "failed"))
  /\ UNCHANGED <<hunterRest, _processed_usernames, analyzerVars, clientVars>>

\* hunter.py:573-590  get_user returns or raises; only the organisation
\* check and the score stand between a contributor and its acceptance
ContribGetUserReturn(i) ==
  /\ InBatch(i)
  /\ task[i].pc = "contrib_get_user"
  /\ \/ /\ \E nt \in ContribLoop(task[i], _processed_usernames, MoreFetches) :
             Move(i, nt)
        /\ UNCHANGED _processed_usernames
     \/ \E p \in Profiles(task[i].user) :
          LET quality_score == _calculate_quality_score(p)
              accepted == p.type # "Organization" /\ quality_score >= MinQuality
              processed == IF accepted
                           THEN _processed_usernames \cup {task[i].user}
                           ELSE _processed_usernames
              t == IF accepted
                   THEN [task[i] EXCEPT !.cands = Append(@,
                           _build_candidate_profile(p, quality_score))]
                   ELSE task[i]
          IN /\ _processed_usernames' = processed
             /\ \E nt \in ContribLoop(t, processed, MoreFetches) : Move(i, nt)
     \/ /\ Move(i, Settle(task[i], "failed"))
        /\ UNCHANGED _processed_usernames
  /\ UNCHANGED <<hunterRest, analyzerVars, clientVars>>

\* hunter.py:592  asyncio.sleep(0.3) returns, the next repository is taken
RepoSleepReturn(i) ==
  /\ InBatch(i)
  /\ task[i].pc = "repo_sleep"
  /\ \E nt \in RepoLoop(task[i]) : Move(i, nt)
  /\ UNCHANGED <<hunterRest, _processed_usernames, analyzerVars, clientVars>>

(***************************************************************************)
(* HunterAgent.execute and the executor                                    *)
(***************************************************************************)
\* hunter.py:461  asyncio.gather returns once every member has settled
AnySettled(b) == \E i \in BatchMembers(b) : task[i].pc = "done"

AllSettled(b) == \A i \in BatchMembers(b) : task[i].pc = "done"

LastOfBatch(b) ==
  IF (b + 1) * batch_size < Len(strategies) THEN (b + 1) * batch_size
  ELSE Len(strategies)

\* hunter.py:464-490  the results of a settled batch, in list order: an
\* exception and a failed SearchResult add nothing
AccumulateFirst(all, i, last) ==
  IF task[i].result = "success" THEN all \o task[i].cands ELSE all

RECURSIVE Accumulate(_, _, _)
Accumulate(all, i, last) ==
  IF i > last THEN all
  ELSE Accumulate(IF task[i].result = "success" THEN all \o task[i].cands
                  ELSE all, i + 1, last)

\* hunter.py:451-461  the coroutines of batch b start; the results list of
\* the batch before it is dropped
Dispatch(b, strats) ==
  [i \in 1..MaxStrategies |->
     IF i <= Len(strats) /\ BatchOf(i) = b THEN StartTask(strats[i])
     ELSE [task[i] EXCEPT !.cands = <<>>]]

\* hunter.py:148-151  except Exception: put the marker, re-raise
SwallowException ==
  /\ hunterPc' = "failed"
  /\ UNCHANGED hunter_to_analyzer_queue

HandleException ==
  /\ hunter_to_analyzer_queue' = Append(hunter_to_analyzer_queue, None)
  /\ hunterPc' = "failed"

\* hunter.py:61-71  execute starts: the dedup set is seeded
HunterStartUnseeded ==
  /\ hunterPc = "idle"
  /\ \E existing \in ExistingChoices :
       /\ existing_usernames' = existing
       /\ _processed_usernames' = {}
  /\ hunterPc' = "_extract_keywords"
  /\ UNCHANGED <<strategies, batch_idx, task, fetches, all_candidates,
                 candidates, push_idx, hunter_to_analyzer_queue, analyzerVars, clientVars>>

HunterStart ==
  /\ hunterPc = "idle"
  /\ \E existing \in ExistingChoices :
       /\ existing_usernames' = existing
       /\ _processed_usernames' = existing
  /\ hunterPc' = "_extract_keywords"
  /\ UNCHANGED <<strategies, batch_idx, task, fetches, all_candidates,
                 candidates, push_idx, hunter_to_analyzer_queue, analyzerVars, clientVars>>

\* hunter.py:85-105, 439-461  the keywords arrive, the strategies are built
\* and the first batch is dispatched; malformed keywords make
\* _build_search_strategies raise.
KeywordsReturn ==
  /\ hunterPc = "_extract_keywords"
  /\ \/ \E strats \in StrategyLists :
          /\ strategies' = strats
          /\ IF strats = <<>>
             THEN /\ candidates' = ExecutorResult(<<>>)
                  /\ hunterPc' = "pushing"
                  /\ UNCHANGED task
             ELSE /\ task' = Dispatch(0, strats)
                  /\ hunterPc' = "gather"
                  /\ UNCHANGED candidates
          /\ UNCHANGED hunter_to_analyzer_queue
     \/ /\ HandleException
        /\ UNCHANGED <<strategies, task, candidates>>
  /\ UNCHANGED <<existing_usernames, batch_idx, _processed_usernames, fetches,
                 all_candidates, push_idx, analyzerVars, clientVars>>

\* hunter.py:493  if len(all_candidates) >= settings.MAX_CANDIDATES_PER_JOB
CapExceeded(count) == count > MAX_CANDIDATES_PER_JOB

CapReached(count) == count >= MAX_CANDIDATES_PER_JOB

\* hunter.py:461-505  a batch has settled: accumulate, compare with the
\* cap, then either dispatch the next batch or return the result (the
\* coroutines and their results are locals of the executor: they end with
\* it; all_candidates keeps what had been accumulated).
BatchSettled ==
  /\ hunterPc = "gather"
  /\ AllSettled(batch_idx)
  /\ LET all == Accumulate(all_candidates, batch_idx * batch_size + 1,
                           LastOfBatch(batch_idx))
     IN IF CapReached(Len(all))
           \/ batch_idx + 1 >= NumBatches
        THEN /\ candidates' = ExecutorResult(all)
             /\ hunterPc' = "pushing"
             /\ all_candidates' = all
             /\ task' = [i \in 1..MaxStrategies |-> IdleTask]
             /\ UNCHANGED batch_idx
        ELSE /\ all_candidates' = all
             /\ task' = Dispatch(batch_idx + 1, strategies)
             /\ batch_idx' = batch_idx + 1
             /\ UNCHANGED <<hunterPc, candidates>>
  /\ UNCHANGED <<existing_usernames, strategies, _processed_usernames,
                 fetches, push_idx, hunter_to_analyzer_queue, analyzerVars, clientVars>>

\* hunter.py:108-121  one candidate is put on the output channel
PushCandidate ==
  /\ hunterPc = "pushing"
  /\ push_idx <= Len(candidates)
  /\ hunter_to_analyzer_queue' =
       Append(hunter_to_analyzer_queue, candidates[push_idx])
  /\ push_idx' = push_idx + 1
  /\ UNCHANGED <<hunterPc, existing_usernames, strategies, batch_idx, task,
                 _processed_usernames, fetches, all_candidates, candidates,
                 analyzerVars, clientVars>>

\* hunter.py:134-136  the end-of-stream marker
PutMarker ==
  /\ hunterPc = "pushing"
  /\ push_idx > Len(candidates)
  /\ hunter_to_analyzer_queue' = Append(hunter_to_analyzer_queue, None)
  /\ hunterPc' = "done"
  /\ UNCHANGED <<existing_usernames, strategies, batch_idx, task,
                 _processed_usernames, fetches, all_candidates, candidates,
                 push_idx, analyzerVars, clientVars>>

(***************************************************************************)
(* AnalyzerAgent.execute                                                   *)
(***************************************************************************)
hunterVars == <<hunterPc, existing_usernames, strategies, batch_idx, task,
                _processed_usernames, fetches, all_candidates, candidates, push_idx>>

\* analyzer.py:42  if candidate is None
NeverMarker(candidate) == FALSE

IsMarker(candidate) == candidate = None

\* analyzer.py:39-44  input_queue.get() returns an item
AnalyzerGet ==
  /\ analyzerPc = "get"
  /\ analyzer_read < Len(hunter_to_analyzer_queue)
  /\ analyzer_read' = analyzer_read + 1
  /\ LET candidate == hunter_to_analyzer_queue[analyzer_read + 1]
     IN IF IsMarker(candidate)
        THEN /\ analyzer_output_queue' = Append(analyzer_output_queue, None)
             /\ analyzerPc' = "done"
             /\ UNCHANGED analyzer_candidate
        ELSE /\ analyzerPc' = "_analyze_candidate"
             /\ analyzer_candidate' = candidate
             /\ UNCHANGED analyzer_output_queue
  /\ UNCHANGED <<clientVars, hunterVars, hunter_to_analyzer_queue>>

\* analyzer.py:54-87  _analyze_candidate returns: no analysis (dropped), an
\* analysis (forwarded), or an analysis lacking a key the completed event
\* reads (forwarded, then the KeyError reaches the handler: marker, raise).
AnalyzeReturn ==
  /\ analyzerPc = "_analyze_candidate"
  /\ \/ /\ analyzerPc' = "get"
        /\ UNCHANGED analyzer_output_queue
     \/ /\ analyzer_output_queue' =
             Append(analyzer_output_queue, analyzer_candidate)
        /\ analyzerPc' = "get"
     \/ /\ analyzer_output_queue' =
             Append(Append(analyzer_output_queue, analyzer_candidate), None)
        /\ analyzerPc' = "failed"
  /\ analyzer_candidate' = None
  /\ UNCHANGED <<clientVars, hunterVars, hunter_to_analyzer_queue, analyzer_read>>

(***************************************************************************)
(* The pipeline's specification                                            *)
(***************************************************************************)
PipeInit ==
  /\ hunterPc = "idle"
  /\ existing_usernames = {}
  /\ strategies = <<>>
  /\ batch_idx = 0
  /\ task = [i \in 1..MaxStrategies |-> IdleTask]
  /\ _processed_usernames = {}
  /\ fetches = 0
  /\ all_candidates = <<>>
  /\ candidates = <<>>
  /\ push_idx = 1
  /\ hunter_to_analyzer_queue = <<>>
  /\ analyzer_read = 0
  /\ analyzerPc = "get"
  /\ analyzer_candidate = None
  /\ analyzer_output_queue = <<>>

StrategyStep(i) ==
  \/ SearchUsersReturn(i)
  \/ UserGetUserReturn(i)
  \/ CheckRecentActivityReturn(i)
  \/ UserSleepReturn(i)
  \/ SearchRepositoriesReturn(i)
  \/ GetRepoContributorsReturn(i)
  \/ ContribGetUserReturn(i)
  \/ RepoSleepReturn(i)

PipeNext ==
  \/ HunterStart
  \/ KeywordsReturn
  \/ \E i \in 1..MaxStrategies : StrategyStep(i)
  \/ BatchSettled
  \/ PushCandidate
  \/ PutMarker
  \/ AnalyzerGet
  \/ AnalyzeReturn

(***************************************************************************)
(* GitHubService: the rate-limit gate and the retry loop                   *)
(***************************************************************************)
\* Bounds: the requests started in one behaviour by concurrent callers and
\* by a single caller, and the answers that make the client try again (403,
\* 429, 5xx, no answer).
MaxRequests == 4
MaxCalls == 2
MaxFailures == 3
\* Bound: the responses in one behaviour that carry a rate-limit header.
MaxHeaders == 1

\* hunter.py:442-461: the strategies of one batch are the concurrent callers
Callers == 1..batch_size

\* github_service.py:127  max_retries: int = 3
max_retries == 3
\* github_service.py:115  if wait_time > 60
GateMaxWait == 60
\* github_service.py:177  if wait_time > 120
RetryMaxWait == 120
\* github_service.py:170  headers.get("Retry-After", 60)
DefaultRetryAfter == 60

\* A header the response does not carry.
Absent == -1

\* What the platform can put in X-RateLimit-Remaining, in X-RateLimit-Reset
\* (seconds after the response) and in Retry-After.
\* Each pair is <<remaining, seconds to the reset>>.
RateLimitHeaders ==
  {<<Absent, Absent>>, <<2, 60>>, <<1, 59>>, <<1, 60>>, <<Absent, 0>>,
   <<0, 121>>}
HeaderRetryAfter == {Absent, 121}
\* 403 and 429 take one branch, as do 200 and 404; 422 stands for the
\* statuses no branch names, 500 for the server errors.
Statuses == {200, 404, 403, 429, 500, 422}
\* The answers of a platform that is up and not limiting the client.
Healthy == {200, 404}
Retried == {403, 429, 500}

\* One call of _request_with_retry.  attempts counts the network attempts
\* made; status is the status of the latest response (0: none, and None for
\* a call that returned); slept is the length of the sleep in progress in
\* tenths of a second; gate, seen_remaining and seen_reset are what the gate
\* decided and read, kept until the first attempt is answered; reset_time
\* is the reset time a raised RateLimitError carries; hdr_remaining and
\* hdr_reset are the rate-limit headers of the latest response, and
\* hdr_retry_after its Retry-After where the code reads it (403, 429);
\* limited tells that some attempt of the call was answered 403 or 429;
\* result is what the read operation built on the call gives its caller.
IdleReq ==
  [pc |-> "idle", is_search |-> FALSE, attempt |-> 0, attempts |-> 0,
   wake |-> 0, slept |-> 0, gate |-> "none", seen_remaining |-> 0,
   seen_reset |-> 0, status |-> 0, reset_time |-> 0,
   hdr_remaining |-> Absent, hdr_reset |-> Absent, hdr_retry_after |-> Absent,
   limited |-> FALSE, result |-> "none"]

\* github_service.py:224-236 (get_user) and 399-409 (search_users): what
\* the read operation makes of the end of _request_with_retry. A 200 gives
\* the decoded value; any other response and no response at all give None
\* or the empty list; a RateLimitError is not caught.
RaisesWithoutResponse(pc, status) ==
  CASE pc = "raised" -> "RateLimitError"
    [] status = 200 -> "value"
    [] status = 0 -> "RequestError"
    [] OTHER -> "empty"

ReadResult(pc, status) ==
  CASE pc = "raised" -> "RateLimitError"
    [] status = 200 -> "value"
    [] OTHER -> "empty"

\* What is left of a call once it has returned or raised.
Finished(r, pc, status, reset_time) ==
  [IdleReq EXCEPT !.pc = pc, !.is_search = r.is_search, !.status = status,
                  !.attempts = r.attempts, !.reset_time = reset_time,
                  !.limited = r.limited,
                  !.result = ReadResult(pc, status),
                  !.hdr_remaining = r.hdr_remaining,
                  !.hdr_reset = r.hdr_reset,
                  !.hdr_retry_after = r.hdr_retry_after]

Remaining(is_search) ==
  IF is_search THEN _search_rate_limit_remaining ELSE _rate_limit_remaining

ResetEpoch(is_search) ==
  IF is_search THEN _search_rate_limit_reset ELSE _rate_limit_reset

\* github_service.py:114  wait_time = reset_time - current_time + 1
GateWaitShort(reset_time, current_time) == reset_time - current_time - 1

GateWaitTime(reset_time, current_time) == reset_time - current_time + 1

\* github_service.py:115  if wait_time > 60: raise
GateRaisesFrom60(wait_time) == wait_time >= GateMaxWait

GateRaises(wait_time) == wait_time > GateMaxWait

GateSleepsWhenLow(remaining, reset_time, current_time) ==
  IF remaining <= 1
  THEN LET wait_time == IF reset_time > current_time
                        THEN GateWaitTime(reset_time, current_time) ELSE 1
       IN IF GateRaises(wait_time) THEN [kind |-> "raise", wait |-> wait_time]
          ELSE [kind |-> "sleep", wait |-> wait_time]
  ELSE [kind |-> "pass", wait |-> 0]

\* github_service.py:106-121  _check_rate_limit: pass, sleep or raise
_check_rate_limit(remaining, reset_time, current_time) ==
  IF remaining <= 1 /\ reset_time > current_time
  THEN LET wait_time == GateWaitTime(reset_time, current_time)
       IN IF GateRaises(wait_time) THEN [kind |-> "raise", wait |-> wait_time]
          ELSE [kind |-> "sleep", wait |-> wait_time]
  ELSE [kind |-> "pass", wait |-> 0]

\* github_service.py:106-121: the gate reads the count and leaves it as it
\* is (the count a passing call leaves behind)
GateReserves(remaining) == remaining - 1

CountAfterGate(remaining) == remaining

\* github_service.py:86-104  a field whose header is absent keeps its value
HeaderIgnored(header, old) == old

HeaderOr(header, old) == IF header = Absent THEN old ELSE header

\* 2 ** attempt
Pow2(n) == IF n = 0 THEN 1 ELSE IF n = 1 THEN 2 ELSE IF n = 2 THEN 4 ELSE 8

PlainBackoff(attempt) == 10 * Pow2(attempt)

\* github_service.py:187  wait_time = (2 ** attempt) + (0.1 * attempt), in
\* tenths of a second
ServerErrorWait(attempt) == 10 * Pow2(attempt) + attempt

\* github_service.py:148  for attempt in range(max_retries)
OneMoreAttempt(attempt) == attempt + 1 < max_retries + 1

HasNextAttempt(attempt) == attempt + 1 < max_retries

\* github_service.py:169-175  the wait of a 403 or 429: from the reset
\* header if the response has one, else from Retry-After (default 60)
RetryAfterWait(hdr_reset, hdr_retry_after, current_time) ==
  HeaderOr(hdr_retry_after, DefaultRetryAfter)

LimitedWait(hdr_reset, hdr_retry_after, current_time) ==
  LET reset_time == HeaderOr(hdr_reset, 0)
      retry_after == HeaderOr(hdr_retry_after, DefaultRetryAfter)
  IN IF reset_time > 0
     THEN (IF reset_time - current_time > 1 THEN reset_time - current_time
           ELSE 1)
     ELSE retry_after

\* github_service.py:177  if wait_time > 120: raise
RetryRaises(wait_time) == wait_time > RetryMaxWait

\* github_service.py:160-165  the statuses returned at once
ReturnedAtOnce(status) == status \in {200, 404}

\* github_service.py:149-155  one network attempt is dispatched
DispatchAttempt(r, attempt) ==
  [r EXCEPT !.pc = "inflight", !.attempt = attempt, !.wake = 0, !.slept = 0,
            !.attempts = attempt + 1, !.seen_reset = 0, !.status = 0,
            !.hdr_remaining = Absent, !.hdr_reset = Absent,
            !.hdr_retry_after = Absent]

\* github_service.py:144-155  a caller starts a request: the gate, then,
\* unless it sleeps or raises, the first attempt
Request(c, is_search, limit) ==
  /\ req[c].pc \in {"idle", "returned", "raised"}
  /\ \A d \in Callers : d < c => req[d].pc \notin {"idle", "returned", "raised"}
  /\ started < limit
  /\ started' = started + 1
  /\ LET remaining == Remaining(is_search)
         reset_time == ResetEpoch(is_search)
         g == _check_rate_limit(remaining, reset_time, now)
         r == [IdleReq EXCEPT !.is_search = is_search, !.gate = g.kind,
                              !.seen_remaining = remaining]
     IN /\ req' = [req EXCEPT ![c] =
                    CASE g.kind = "raise" ->
                           Finished(r, "raised", 0, reset_time)
                      [] g.kind = "sleep" ->
                           [r EXCEPT !.pc = "gate_sleep",
                                     !.seen_reset = reset_time,
                                     !.wake = now + g.wait,
                                     !.slept = 10 * g.wait]
                      [] OTHER -> DispatchAttempt(r, 0)]
        /\ IF is_search
           THEN /\ _search_rate_limit_remaining' =
                      IF g.kind = "pass" THEN CountAfterGate(remaining)
                      ELSE remaining
                /\ UNCHANGED _rate_limit_remaining
           ELSE /\ _rate_limit_remaining' =
                      IF g.kind = "pass" THEN CountAfterGate(remaining)
                      ELSE remaining
                /\ UNCHANGED _search_rate_limit_remaining
  /\ UNCHANGED <<now, _rate_limit_reset, _search_rate_limit_reset, headers,
                 failures, pipeVars>>

\* github_service.py:121  asyncio.sleep(wait_time) returns: first attempt
GateWake(c) ==
  /\ req[c].pc = "gate_sleep"
  /\ now >= req[c].wake
  /\ req' = [req EXCEPT ![c] = DispatchAttempt(@, 0)]
  /\ UNCHANGED <<now, _rate_limit_remaining, _rate_limit_reset,
                 _search_rate_limit_remaining, _search_rate_limit_reset,
                 started, headers, failures, pipeVars>>

\* github_service.py:157-193  a response arrives: the bucket is updated
\* from its headers, then the status decides.  A sleep is recorded in
\* tenths of a second (slept); the clock counts whole seconds, so a sleep
\* of d seconds is over once the clock has advanced by the whole part of d.
Respond(c, answers) ==
  /\ req[c].pc = "inflight"
  /\ \E status \in answers, h \in RateLimitHeaders,
        hdr_retry_after \in HeaderRetryAfter :
     LET hdr_remaining == h[1]
         hdr_reset == IF h[2] = Absent THEN Absent ELSE now + h[2]
         carried == IF h = <<Absent, Absent>> THEN 0 ELSE 1
     IN
       /\ status \in Retried => failures < MaxFailures
       /\ headers + carried <= MaxHeaders
       /\ headers' = headers + carried
       /\ failures' = IF status \in Retried THEN failures + 1 ELSE failures
       /\ IF req[c].is_search
          THEN /\ _search_rate_limit_remaining' =
                     HeaderOr(hdr_remaining, _search_rate_limit_remaining)
               /\ _search_rate_limit_reset' =
                     HeaderOr(hdr_reset, _search_rate_limit_reset)
               /\ UNCHANGED <<_rate_limit_remaining, _rate_limit_reset>>
          ELSE /\ _rate_limit_remaining' =
                     HeaderOr(hdr_remaining, _rate_limit_remaining)
               /\ _rate_limit_reset' = HeaderOr(hdr_reset, _rate_limit_reset)
               /\ UNCHANGED <<_search_rate_limit_remaining,
                              _search_rate_limit_reset>>
       /\ LET r == [req[c] EXCEPT !.gate = "none", !.seen_remaining = 0,
                                  !.status = status,
                                  !.hdr_remaining = hdr_remaining,
                                  !.hdr_reset = hdr_reset,
                                  !.hdr_retry_after =
                                     IF status \in {403, 429}
                                     THEN hdr_retry_after ELSE Absent]
              reset_time == HeaderOr(hdr_reset, 0)
              limited_wait == LimitedWait(hdr_reset, hdr_retry_after, now)
          IN req' = [req EXCEPT ![c] =
               CASE ReturnedAtOnce(status) -> Finished(r, "returned", status, 0)
                 [] status \in {403, 429} ->
                      IF RetryRaises(limited_wait)
                      THEN Finished([r EXCEPT !.limited = TRUE], "raised",
                                    status, reset_time)
                      ELSE [r EXCEPT !.pc = "retry_sleep", !.limited = TRUE,
                                     !.wake = now + limited_wait,
                                     !.slept = 10 * limited_wait]
                 [] status >= 500 ->
                      [r EXCEPT !.pc = "retry_sleep",
                                !.wake = now + Pow2(r.attempt),
                                !.slept = ServerErrorWait(r.attempt)]
                 [] OTHER -> Finished(r, "returned", status, 0)]
  /\ UNCHANGED <<now, started, pipeVars>>

\* github_service.py:195-205  the attempt times out or the connection
\* fails: no response, no header, a sleep of 2 ** attempt + 1
NoResponse(c) ==
  /\ req[c].pc = "inflight"
  /\ failures < MaxFailures
  /\ failures' = failures + 1
  /\ req' = [req EXCEPT ![c] =
        [@ EXCEPT !.pc = "retry_sleep", !.gate = "none", !.seen_remaining = 0,
                  !.wake = now + Pow2(req[c].attempt) + 1,
                  !.slept = 10 * (Pow2(req[c].attempt) + 1)]]
  /\ UNCHANGED <<now, _rate_limit_remaining, _rate_limit_reset,
                 _search_rate_limit_remaining, _search_rate_limit_reset,
                 started, headers, pipeVars>>

RetryWakeRaises(c) ==
  /\ req[c].pc = "retry_sleep"
  /\ now >= req[c].wake
  /\ req' = [req EXCEPT ![c] =
        IF HasNextAttempt(@.attempt)
        THEN DispatchAttempt(@, @.attempt + 1)
        ELSE IF @.limited THEN Finished(@, "raised", @.status, @.hdr_reset)
        ELSE Finished(@, "returned", 0, 0)]
  /\ UNCHANGED <<now, _rate_limit_remaining, _rate_limit_reset,
                 _search_rate_limit_remaining, _search_rate_limit_reset,
                 started, headers, failures, pipeVars>>

RetryWakeGated(c) ==
  /\ req[c].pc = "retry_sleep"
  /\ now >= req[c].wake
  /\ LET g == _check_rate_limit(Remaining(req[c].is_search),
                                ResetEpoch(req[c].is_search), now)
     IN req' = [req EXCEPT ![c] =
          IF ~HasNextAttempt(@.attempt) THEN Finished(@, "returned", 0, 0)
          ELSE IF g.kind = "pass" THEN DispatchAttempt(@, @.attempt + 1)
          ELSE IF g.kind = "sleep"
               THEN [@ EXCEPT !.pc = "gate_sleep", !.wake = now + g.wait]
          ELSE Finished(@, "raised", 0, ResetEpoch(req[c].is_search))]
  /\ UNCHANGED <<now, _rate_limit_remaining, _rate_limit_reset,
                 _search_rate_limit_remaining, _search_rate_limit_reset,
                 started, headers, failures, pipeVars>>

\* github_service.py:148, 207-208  the sleep of a failed attempt returns:
\* the next attempt, or None once the attempts are used up
RetryWake(c) ==
  /\ req[c].pc = "retry_sleep"
  /\ now >= req[c].wake
  /\ req' = [req EXCEPT ![c] =
        IF HasNextAttempt(@.attempt)
        THEN DispatchAttempt(@, @.attempt + 1)
        ELSE Finished(@, "returned", 0, 0)]
  /\ UNCHANGED <<now, _rate_limit_remaining, _rate_limit_reset,
                 _search_rate_limit_remaining, _search_rate_limit_reset,
                 started, headers, failures, pipeVars>>

\* Time passes, up to the moment a sleeping call is due.
Tick ==
  /\ \E c \in Callers :
       /\ req[c].pc \in {"gate_sleep", "retry_sleep"}
       /\ req[c].wake > now
       /\ now' = req[c].wake
  /\ UNCHANGED <<_rate_limit_remaining, _rate_limit_reset,
                 _search_rate_limit_remaining, _search_rate_limit_reset,
                 req, started, headers, failures, pipeVars>>

(***************************************************************************)
(* The read operations and their caches (github_service.py)                *)
(***************************************************************************)
\* The model's budget of requests the read operations of one run start,
\* and the time that passes between the calls of a run.
MaxReads == 2
MaxAge == 600

\* github_service.py:82-84  the lifetime of an entry, by cache
UserTtl == 600
SearchTtl == 300
RepoTtl == 300

\* The arguments of the calls: one user, so that the keys of a cache differ
\* by the operation.
Params == {"octocat"}
\* Time between two calls, chosen to land on both sides of each lifetime.
Waits == {299, 300}

\* github_service.py:210-449  the operations that read from the platform
Operations ==
  {"get_user", "get_user_repos", "get_repo", "get_repo_commits",
   "get_repo_languages", "get_repo_contributors", "search_users",
   "search_repositories"}

\* The cache an operation looks into and stores to; three of them use none.
CacheOf(op) ==
  CASE op = "get_user" -> "_user_cache"
    [] op \in {"get_user_repos", "get_repo"} -> "_repo_cache"
    [] op \in {"search_users", "search_repositories"} -> "_search_cache"
    [] OTHER -> "none"

\* is_search=True is passed by the two search operations only
IsSearch(op) == op \in {"search_users", "search_repositories"}

_ttl(name) ==
  CASE name = "_user_cache" -> UserTtl
    [] name = "_search_cache" -> SearchTtl
    [] OTHER -> RepoTtl

\* The cache key: the operation's prefix and its arguments.
cache_key(op, param) == <<op, param>>

\* SearchCache.get (36-44): the value of an entry younger than the
\* lifetime; an older entry is deleted and None is returned.
ExpiredLate(age, ttl) == ~(age <= ttl)

ExpiredEarly(age, ttl) == ~(age < ttl - 1)

Expired(age, ttl) == ~(age < ttl)

CacheGet(cache, ttl, key, current_time) ==
  IF \E e \in cache : e.key = key
  THEN LET e == CHOOSE x \in cache : x.key = key
       IN IF Expired(current_time - e.timestamp, ttl)
          THEN [hit |-> FALSE, value |-> 0, cache |-> cache \ {e}]
          ELSE [hit |-> TRUE, value |-> e.value, cache |-> cache]
  ELSE [hit |-> FALSE, value |-> 0, cache |-> cache]

\* SearchCache.set (46-48)
CacheSet(cache, key, value, current_time) ==
  {e \in cache : e.key # key} \cup
  {[key |-> key, value |-> value, timestamp |-> current_time]}

\* SearchCache.cleanup_expired (54-62)
cleanup_expired(cache, ttl, current_time) ==
  {e \in cache : ~(current_time - e.timestamp >= ttl)}

NoEntries == [_user_cache |-> {}, _search_cache |-> {}, _repo_cache |-> {}]

\* The caller is in no read operation and has called none. value is the
\* data a call returned, named by the time the platform served it; evicted
\* tells that the lookup of the call in progress deleted an expired entry.
IdleCall ==
  [pc |-> "idle", op |-> "none", param |-> "", result |-> "none", value |-> 0,
   evicted |-> FALSE]

ConcludeStoresAny(op, param, cs) ==
  LET r == req'[1]
      name == CacheOf(op)
  IN IF r.pc \in {"returned", "raised"}
     THEN /\ call' = [pc |-> "done", op |-> op, param |-> param,
                      result |-> r.result,
                      value |-> IF r.result = "value" THEN now ELSE 0,
                      evicted |-> FALSE]
          /\ caches' = IF r.pc = "returned" /\ name # "none"
                       THEN [cs EXCEPT ![name] =
                               CacheSet(@, cache_key(op, param), now, now)]
                       ELSE cs
     ELSE /\ call' = [pc |-> "request", op |-> op, param |-> param,
                      result |-> "none", value |-> 0,
                      evicted |-> \/ cs # caches
                                  \/ call.pc = "request" /\ call.evicted]
          /\ caches' = cs

\* The end of a read operation whose request has returned or raised in
\* this step: a 200 is decoded, stored by the caching operations and
\* returned; anything else is returned as the empty result and not stored.
\* cs are the caches as the lookup left them.
Conclude(op, param, cs) ==
  LET r == req'[1]
      name == CacheOf(op)
  IN IF r.pc \in {"returned", "raised"}
     THEN /\ call' = [pc |-> "done", op |-> op, param |-> param,
                      result |-> r.result,
                      value |-> IF r.result = "value" THEN now ELSE 0,
                      evicted |-> FALSE]
          /\ caches' = IF r.result = "value" /\ name # "none"
                       THEN [cs EXCEPT ![name] =
                               CacheSet(@, cache_key(op, param), now, now)]
                       ELSE cs
     ELSE /\ call' = [pc |-> "request", op |-> op, param |-> param,
                      result |-> "none", value |-> 0,
                      evicted |-> \/ cs # caches
                                  \/ call.pc = "request" /\ call.evicted]
          /\ caches' = cs

\* A read operation is called: the lookup, then on a miss the request, up
\* to its first await (or to its end, when the gate raises).
ReadCall(op, param) ==
  /\ call.pc \in {"idle", "done"}
  /\ LET name == CacheOf(op)
         g == IF name = "none"
              THEN [hit |-> FALSE, value |-> 0, cache |-> {}]
              ELSE CacheGet(caches[name], _ttl(name), cache_key(op, param),
                            now)
         cs == IF name = "none" THEN caches
               ELSE [caches EXCEPT ![name] = g.cache]
     IN IF g.hit
        THEN /\ call' = [pc |-> "done", op |-> op, param |-> param,
                         result |-> "hit", value |-> g.value,
                         evicted |-> FALSE]
             /\ UNCHANGED <<now, _rate_limit_remaining, _rate_limit_reset,
                            _search_rate_limit_remaining,
                            _search_rate_limit_reset, req, started, headers,
                            failures, caches, pipeVars>>
        ELSE /\ Request(1, IsSearch(op), MaxReads)
             /\ Conclude(op, param, cs)

\* The sleep of the gate returns, inside a read operation.
ReadGateWake ==
  /\ call.pc = "request"
  /\ GateWake(1)
  /\ Conclude(call.op, call.param, caches)

\* The platform answers the request of a read operation.
ReadRespond ==
  /\ call.pc = "request"
  /\ Respond(1, Healthy)
  /\ Conclude(call.op, call.param, caches)

\* Time passes between two calls.
TimePasses ==
  /\ call.pc \in {"idle", "done"}
  /\ \E d \in Waits :
       /\ now + d <= 1000 + MaxAge
       /\ now' = now + d
  /\ UNCHANGED <<_rate_limit_remaining, _rate_limit_reset,
                 _search_rate_limit_remaining, _search_rate_limit_reset,
                 req, started, headers, failures, cacheVars, pipeVars>>

\* github_service.py:485-489  clear_cache; what the last call returned no
\* longer tells what the caches hold
clear_cache ==
  /\ call.pc \in {"idle", "done"}
  /\ caches # NoEntries
  /\ caches' = NoEntries
  /\ call' = IdleCall
  /\ UNCHANGED <<now, _rate_limit_remaining, _rate_limit_reset,
                 _search_rate_limit_remaining, _search_rate_limit_reset,
                 req, started, headers, failures, pipeVars>>

\* SearchCache.cleanup_expired called on one of the caches
CleanupExpired(name) ==
  /\ call.pc \in {"idle", "done"}
  /\ caches' = [caches EXCEPT ![name] = cleanup_expired(@, _ttl(name), now)]
  /\ caches' # caches
  /\ UNCHANGED <<now, _rate_limit_remaining, _rate_limit_reset,
                 _search_rate_limit_remaining, _search_rate_limit_reset,
                 req, started, headers, failures, call, pipeVars>>

\* One caller of the read operations, a platform that answers 200 or 404.
CacheNext ==
  \/ /\ \E op \in Operations, param \in Params : ReadCall(op, param)
     /\ UNCHANGED sideVars
  \/ ReadGateWake /\ UNCHANGED sideVars
  \/ ReadRespond /\ UNCHANGED sideVars
  \/ Tick /\ UNCHANGED <<cacheVars, sideVars>>
  \/ TimePasses /\ UNCHANGED sideVars
  \/ clear_cache /\ UNCHANGED sideVars
  \/ /\ \E name \in DOMAIN NoEntries : CleanupExpired(name)
     /\ UNCHANGED sideVars

\* The platform answers the request of a read operation with any status.
ReadRespondAny ==
  /\ call.pc = "request"
  /\ Respond(1, Statuses)
  /\ Conclude(call.op, call.param, caches)

\* The request of a read operation gets no response.
ReadNoResponse ==
  /\ call.pc = "request"
  /\ NoResponse(1)
  /\ Conclude(call.op, call.param, caches)

\* The sleep of a failed attempt returns, inside a read operation.
ReadRetryWake ==
  /\ call.pc = "request"
  /\ RetryWake(1)
  /\ Conclude(call.op, call.param, caches)

\* One caller of a profile read and of a user search, a platform that may
\* answer anything or not at all.
MissNext ==
  \/ /\ \E op \in {"get_user", "search_users"}, param \in Params :
          ReadCall(op, param)
     /\ UNCHANGED sideVars
  \/ ReadGateWake /\ UNCHANGED sideVars
  \/ ReadRespondAny /\ UNCHANGED sideVars
  \/ ReadNoResponse /\ UNCHANGED sideVars
  \/ ReadRetryWake /\ UNCHANGED sideVars
  \/ Tick /\ UNCHANGED <<cacheVars, sideVars>>
  \/ TimePasses /\ UNCHANGED sideVars

\* github_service.py:75-84  the state after construction
ClientInit ==
  /\ now = 1000
  /\ _rate_limit_remaining = 5000
  /\ _rate_limit_reset = 0
  /\ _search_rate_limit_remaining = 30
  /\ _search_rate_limit_reset = 0
  /\ req = [c \in Callers |-> IdleReq]
  /\ started = 0
  /\ headers = 0
  /\ failures = 0
  /\ caches = NoEntries
  /\ call = IdleCall

\* One caller at a time, a platform that may answer anything or not at all.
ClientNext ==
  \/ /\ \E is_search \in BOOLEAN : Request(1, is_search, MaxCalls)
     /\ UNCHANGED <<cacheVars, sideVars>>
  \/ GateWake(1) /\ UNCHANGED <<cacheVars, sideVars>>
  \/ Respond(1, Statuses) /\ UNCHANGED <<cacheVars, sideVars>>
  \/ NoResponse(1) /\ UNCHANGED <<cacheVars, sideVars>>
  \/ RetryWake(1) /\ UNCHANGED <<cacheVars, sideVars>>
  \/ Tick /\ UNCHANGED <<cacheVars, sideVars>>

\* hunter.py:461: the strategies of a batch call concurrently; the platform
\* answers every attempt.
RaceNext ==
  \/ /\ \E c \in Callers, is_search \in BOOLEAN :
          Request(c, is_search, MaxRequests)
     /\ UNCHANGED <<cacheVars, sideVars>>
  \/ /\ \E c \in Callers : GateWake(c)
     /\ UNCHANGED <<cacheVars, sideVars>>
  \/ /\ \E c \in Callers : Respond(c, Healthy)
     /\ UNCHANGED <<cacheVars, sideVars>>
  \/ Tick /\ UNCHANGED <<cacheVars, sideVars>>

(***************************************************************************)
(* Specifications                                                          *)
(***************************************************************************)
vars == <<pipeVars, clientVars, sideVars>>

\* No lone search is looked at: the platform's answers are chosen call by
\* call.
NoPlatform == [profile |-> NoProfile, repos |-> "none"]

\* The two jobs whose runs share the orchestrator, and the locations of
\* their descriptions.
Jobs == {1, 2}

JobLocation(j) == IF j = 1 THEN "Seoul" ELSE "Berlin"

\* execute has not been called for the job.
IdleRun(j, existing) ==
  [pc |-> "idle", existing_usernames |-> existing, location |-> JobLocation(j),
   strategy_location |-> "none", fetching |-> 0, accepted |-> {},
   skipped |-> {}]

\* The strategy has called no get_user.
IdleGetUser == [pc |-> "idle", username |-> 0, result |-> "none", value |-> 0]

\* No request for the job was made, no run of execute is called, and no
\* strategy reads a profile.
ProcessIdle ==
  /\ pipelines = <<>>
  /\ response = 0
  /\ runs = [j \in Jobs |-> IdleRun(j, {})]
  /\ _current_job_location = "none"
  /\ calls = [c \in 1..2 |-> IdleGetUser]

\* orchestrator.py:49-68  start_job has created the two stages and awaits
\* Sourcing; the job is running.
OrchStart ==
  /\ orchPc = "await_hunter"
  /\ analyzed_candidates = <<>>
  /\ saved = <<>>
  /\ job_status = "running"

\* No bundle has been extracted.
NoKeywords ==
  [core_languages |-> 0, primary_frameworks |-> 0, related_technologies |-> 0,
   repository_topics |-> 0, domain_keywords |-> 0, alternative_terms |-> 0]

BuilderIdle ==
  /\ keywords = NoKeywords
  /\ existing_count = 0
  /\ built_strategies = <<>>
  /\ strategy_batches = <<>>

SideInit ==
  /\ platform = NoPlatform
  /\ BuilderIdle
  /\ OrchStart
  /\ ProcessIdle
  /\ active_connections = 0
  /\ publish_failures = 0

Init == PipeInit /\ ClientInit /\ SideInit

Next == PipeNext /\ UNCHANGED sideVars

Spec == Init /\ [][Next]_vars

\* The event loop resumes a coroutine that is ready: Analysis takes an item
\* that is in its channel, and each per-candidate analysis call returns.
FairSpec ==
  /\ Spec
  /\ WF_vars(AnalyzerGet /\ UNCHANGED sideVars)
  /\ WF_vars(AnalyzeReturn /\ UNCHANGED sideVars)

ClientSpec == Init /\ [][ClientNext]_vars

\* Every sleep returns and every attempt is answered or times out.
ClientFairSpec == ClientSpec /\ WF_vars(ClientNext)

RaceSpec == Init /\ [][RaceNext]_vars

CacheSpec == Init /\ [][CacheNext]_vars

MissSpec == Init /\ [][MissNext]_vars

(***************************************************************************)
(* The end of the executor on its own (hunter.py:501-505)                  *)
(***************************************************************************)
\* The longest accumulated list the executor is given.
MaxAccumulated == 4

\* One username more than the cap, so that the truncation drops someone;
\* the lowest and the highest score a candidate can have.
ResultUsers == 1..(MAX_CANDIDATES_PER_JOB + 1)
ResultScores == {MinQuality, 10}

Accepted ==
  {[username |-> u, quality_score |-> q, public_repos |-> 20,
    followers |-> 100] : u \in ResultUsers, q \in ResultScores}

\* What the batches may have accumulated: any list of accepted candidates,
\* a username possibly more than once.
AccumulatedLists == UNION {[1..k -> Accepted] : k \in 0..MaxAccumulated}

\* The last batch has settled and its results are accumulated.
ResultInit ==
  /\ hunterPc = "gather"
  /\ existing_usernames = {}
  /\ strategies = <<>>
  /\ batch_idx = 0
  /\ task = [i \in 1..MaxStrategies |-> IdleTask]
  /\ _processed_usernames = {}
  /\ fetches = 0
  /\ all_candidates \in AccumulatedLists
  /\ candidates = <<>>
  /\ push_idx = 1
  /\ hunter_to_analyzer_queue = <<>>
  /\ analyzer_read = 0
  /\ analyzerPc = "get"
  /\ analyzer_candidate = None
  /\ analyzer_output_queue = <<>>
  /\ ClientInit
  /\ SideInit

\* hunter.py:501-505  deduplicate, sort, truncate, return
ExecutorReturns ==
  /\ hunterPc = "gather"
  /\ candidates' = ExecutorResult(all_candidates)
  /\ hunterPc' = "pushing"
  /\ UNCHANGED <<existing_usernames, strategies, batch_idx, task,
                 _processed_usernames, fetches, all_candidates, push_idx,
                 hunter_to_analyzer_queue, analyzerVars, clientVars,
                 sideVars>>

ResultSpec == ResultInit /\ [][ExecutorReturns]_vars

(***************************************************************************)
(* The filter chain on its own (hunter.py:617-680): one user search whose  *)
(* page holds one hit                                                      *)
(***************************************************************************)
\* What the fields of a profile may hold: values on both sides of every
\* threshold the hard rejects and the score compare them with.
FilterTypes == {"User", "Organization"}
FilterRepos == {2, 3, 5, 10, 20, 101}
FilterFollowers == {0, 10, 11, 25, 49, 50, 100, 150}
FilterFollowing == {0, 30, 34, 500}
FilterBioLens == {0, 20, 50, 60}

FilterProfiles ==
  {[login |-> 1, type |-> ty, org_marker |-> m, public_repos |-> r,
    followers |-> f, following |-> g, bio_len |-> b, has_name |-> n,
    has_contact |-> c, hireable |-> h]
   : ty \in FilterTypes, m \in BOOLEAN, r \in FilterRepos,
     f \in FilterFollowers, g \in FilterFollowing, b \in FilterBioLens,
     n \in BOOLEAN, c \in BOOLEAN, h \in BOOLEAN}

\* hunter.py:617-623  the strategy has taken the hit, which is not in the
\* dedup set, and awaits get_user; the page has no other hit.
FilterInit ==
  /\ hunterPc = "gather"
  /\ existing_usernames = {}
  /\ strategies = <<"user">>
  /\ batch_idx = 0
  /\ task = [i \in 1..MaxStrategies |->
               IF i = 1 THEN [IdleTask EXCEPT !.pc = "get_user", !.user = 1]
               ELSE IdleTask]
  /\ _processed_usernames = {}
  /\ fetches = MaxFetches
  /\ all_candidates = <<>>
  /\ candidates = <<>>
  /\ push_idx = 1
  /\ hunter_to_analyzer_queue = <<>>
  /\ analyzer_read = 0
  /\ analyzerPc = "get"
  /\ analyzer_candidate = None
  /\ analyzer_output_queue = <<>>
  /\ ClientInit
  /\ platform \in [profile : FilterProfiles, repos : ReposResults]
  /\ BuilderIdle
  /\ OrchStart
  /\ ProcessIdle
  /\ active_connections = 0
  /\ publish_failures = 0

\* hunter.py:623-663  get_user returns the profile the platform holds
FilterGetUserReturn ==
  /\ InBatch(1)
  /\ task[1].pc = "get_user"
  /\ ProfileArrives(1, platform.profile)
  /\ UNCHANGED <<hunterRest, _processed_usernames, analyzerVars, clientVars,
                 sideVars>>

\* hunter.py:663-678  _check_recent_activity ends on the repositories the
\* platform holds
FilterActivityReturn ==
  /\ InBatch(1)
  /\ task[1].pc = "_check_recent_activity"
  /\ ActivityArrives(1, _check_recent_activity(platform.repos))
  /\ UNCHANGED <<hunterRest, analyzerVars, clientVars, sideVars>>

FilterNext ==
  \/ FilterGetUserReturn
  \/ FilterActivityReturn
  \/ UserSleepReturn(1) /\ UNCHANGED sideVars

FilterSpec == FilterInit /\ [][FilterNext]_vars

\* The usernames of a list of candidates, and the two ways a stage ends.
Usernames(cs) == {cs[k].username : k \in DOMAIN cs}

HunterTerminated == hunterPc \in {"done", "failed"}

AnalyzerTerminated == analyzerPc \in {"done", "failed"}

(***************************************************************************)
(* The orchestrator and the progress events (orchestrator.py, base.py,     *)
(* websocket_manager.py), from the moment the executor has returned        *)
(***************************************************************************)
\* The clients connected to the job when the run starts, and the publishes
\* of one run that fail.
MaxConnections == 2
MaxPublishFailures == 2

\* websocket_manager.py:43-69  broadcast with connections registered for
\* the job: nothing is done without a connection; json.dumps raises on a
\* payload it cannot serialise; a send_text that raises is caught and its
\* connection dropped (dead of them).
broadcast(connections, serializable, dead) ==
  IF connections = 0 THEN [raised |-> FALSE, connections |-> 0]
  ELSE IF ~serializable THEN [raised |-> TRUE, connections |-> connections]
  ELSE [raised |-> FALSE, connections |-> connections - dead]

\* base.py:18-40  emit_event: broadcast inside try / except Exception
EmitPropagates(connections, serializable, dead) ==
  broadcast(connections, serializable, dead)

emit_event(connections, serializable, dead) ==
  [broadcast(connections, serializable, dead) EXCEPT !.raised = FALSE]

\* The event reached no client it was sent to, or not all of them.
PublishFailed(connections, serializable, dead) ==
  connections > 0 /\ (~serializable \/ dead > 0)

\* One await of emit_event inside a stage: the stage goes on as Continue
\* when emit_event returns and as Raise when it raises.
Emit(Continue, Raise) ==
  \E serializable \in BOOLEAN, dead \in 0..active_connections :
    LET e == emit_event(active_connections, serializable, dead)
        failed == IF PublishFailed(active_connections, serializable, dead)
                  THEN 1 ELSE 0
    IN /\ publish_failures + failed <= MaxPublishFailures
       /\ publish_failures' = publish_failures + failed
       /\ active_connections' = e.connections
       /\ IF e.raised THEN Raise ELSE Continue

\* hunter.py:109-121, 148-151  the candidate is put, then the exception of
\* the event reaches the handler: marker, re-raise
PushThenRaise ==
  /\ hunterPc = "pushing"
  /\ push_idx <= Len(candidates)
  /\ hunter_to_analyzer_queue' =
       Append(Append(hunter_to_analyzer_queue, candidates[push_idx]), None)
  /\ hunterPc' = "failed"
  /\ UNCHANGED <<existing_usernames, strategies, batch_idx, task,
                 _processed_usernames, fetches, all_candidates, candidates,
                 push_idx, analyzerVars, clientVars>>

\* hunter.py:108-121  put the candidate, emit profile_found
EmitProfileFound ==
  /\ Emit(PushCandidate, PushThenRaise)
  /\ UNCHANGED <<platform, processVars, builderVars, orchVars>>

\* hunter.py:123-132, 148-151  the exception of search_completed reaches
\* the handler before the marker is put
CompletedRaises ==
  /\ hunterPc = "pushing"
  /\ push_idx > Len(candidates)
  /\ HandleException
  /\ UNCHANGED <<existing_usernames, strategies, batch_idx, task,
                 _processed_usernames, fetches, all_candidates, candidates,
                 push_idx, analyzerVars, clientVars>>

\* hunter.py:123-136  emit search_completed, put the marker
EmitSearchCompleted ==
  /\ Emit(PutMarker, CompletedRaises)
  /\ UNCHANGED <<platform, processVars, builderVars, orchVars>>

\* analyzer.py:39-51, 84-87  the exception of started reaches the handler
GetThenRaise ==
  /\ analyzerPc = "get"
  /\ analyzer_read < Len(hunter_to_analyzer_queue)
  /\ analyzer_read' = analyzer_read + 1
  /\ analyzer_output_queue' = Append(analyzer_output_queue, None)
  /\ analyzerPc' = "failed"
  /\ UNCHANGED <<analyzer_candidate, clientVars, hunterVars,
                 hunter_to_analyzer_queue>>

\* analyzer.py:39-51  an item is taken; a candidate is announced (started)
EmitStarted ==
  /\ analyzerPc = "get"
  /\ analyzer_read < Len(hunter_to_analyzer_queue)
  /\ IF IsMarker(hunter_to_analyzer_queue[analyzer_read + 1])
     THEN AnalyzerGet /\ UNCHANGED wsVars
     ELSE Emit(AnalyzerGet, GetThenRaise)
  /\ UNCHANGED <<platform, processVars, builderVars, orchVars>>

\* analyzer.py:61  this step puts the candidate and goes on to the next
Forwards ==
  /\ analyzer_output_queue' = Append(analyzer_output_queue, analyzer_candidate)
  /\ analyzerPc' = "get"

\* analyzer.py:61-77, 84-87  the candidate is put, then the exception of
\* completed reaches the handler
ForwardThenRaise ==
  /\ analyzerPc = "_analyze_candidate"
  /\ analyzer_output_queue' =
       Append(Append(analyzer_output_queue, analyzer_candidate), None)
  /\ analyzerPc' = "failed"
  /\ analyzer_candidate' = None
  /\ UNCHANGED <<clientVars, hunterVars, hunter_to_analyzer_queue,
                 analyzer_read>>

\* analyzer.py:54-80  the analysis returns; completed is emitted for a
\* candidate that is forwarded and for no other
EmitCompleted ==
  /\ \/ Emit(AnalyzeReturn /\ Forwards, ForwardThenRaise)
     \/ AnalyzeReturn /\ ~Forwards /\ UNCHANGED wsVars
  /\ UNCHANGED <<platform, processVars, builderVars, orchVars>>

JobFailsUnmarked ==
  /\ orchPc' = "failed"
  /\ UNCHANGED job_status

\* orchestrator.py:96-105  except Exception: the job is marked failed, raise
JobFails ==
  /\ job_status' = "failed"
  /\ orchPc' = "failed"

AwaitHunterGoesOn ==
  /\ orchPc = "await_hunter"
  /\ HunterTerminated
  /\ orchPc' = "await_analyzer"
  /\ UNCHANGED job_status
  /\ UNCHANGED <<analyzed_candidates, saved, wsVars, platform, processVars, builderVars, pipeVars,
                 clientVars>>

\* orchestrator.py:68  await hunter_task returns or raises what execute did
AwaitHunter ==
  /\ orchPc = "await_hunter"
  /\ HunterTerminated
  /\ IF hunterPc = "done"
     THEN orchPc' = "await_analyzer" /\ UNCHANGED job_status
     ELSE JobFails
  /\ UNCHANGED <<analyzed_candidates, saved, wsVars, platform, processVars, builderVars, pipeVars,
                 clientVars>>

\* orchestrator.py:72-76  the output channel is emptied; markers are left out
CollectWithMarkers(queue) == queue

RECURSIVE Collect(_)
Collect(queue) ==
  IF queue = <<>> THEN <<>>
  ELSE IF Head(queue) = None THEN Collect(Tail(queue))
  ELSE <<Head(queue)>> \o Collect(Tail(queue))

\* orchestrator.py:69-79  await analyzer_task returns or raises; the
\* candidates are collected and _save_results is called
AwaitAnalyzer ==
  /\ orchPc = "await_analyzer"
  /\ AnalyzerTerminated
  /\ IF analyzerPc = "done"
     THEN /\ analyzed_candidates' = Collect(analyzer_output_queue)
          /\ orchPc' = "_save_results"
          /\ UNCHANGED job_status
     ELSE JobFails /\ UNCHANGED analyzed_candidates
  /\ UNCHANGED <<saved, wsVars, platform, processVars, builderVars, pipeVars, clientVars>>

\* orchestrator.py:79-89, 107-260  _save_results commits the candidates and
\* the job is marked completed, or the store raises and nothing is kept
SaveResultsReturn ==
  /\ orchPc = "_save_results"
  /\ \/ /\ saved' = analyzed_candidates
        /\ job_status' = "completed"
        /\ orchPc' = "broadcast"
     \/ JobFails /\ UNCHANGED saved
  /\ UNCHANGED <<analyzed_candidates, wsVars, platform, processVars, builderVars, pipeVars, clientVars>>

\* orchestrator.py:87-105  pipeline.completed is broadcast directly: its
\* payload is two numbers, which json.dumps serialises; an exception of
\* broadcast would reach the handler of start_job
BroadcastCompleted ==
  /\ orchPc = "broadcast"
  /\ \E dead \in 0..active_connections :
       LET e == broadcast(active_connections, TRUE, dead)
           failed == IF PublishFailed(active_connections, TRUE, dead)
                     THEN 1 ELSE 0
       IN /\ publish_failures + failed <= MaxPublishFailures
          /\ publish_failures' = publish_failures + failed
          /\ active_connections' = e.connections
          /\ IF e.raised THEN JobFails
             ELSE orchPc' = "done" /\ UNCHANGED job_status
  /\ UNCHANGED <<analyzed_candidates, saved, platform, processVars, builderVars, pipeVars,
                 clientVars>>

\* The lists the executor may return: candidates of distinct usernames in
\* non-increasing order of score, no more than the cap.
Candidate(u) ==
  _build_candidate_profile(ProfileOf(u), _calculate_quality_score(ProfileOf(u)))

ReturnedLists ==
  {cs \in UNION {[1..k -> {Candidate(u) : u \in Users}]
                 : k \in 0..MAX_CANDIDATES_PER_JOB} :
     /\ \A a, b \in DOMAIN cs : cs[a].username = cs[b].username => a = b
     /\ \A a, b \in DOMAIN cs :
           a < b => cs[a].quality_score >= cs[b].quality_score}

\* hunter.py:105-108, 148-151  the executor has returned its list and
\* Sourcing is about to push it, or Sourcing has ended by exception before
\* any push; start_job awaits Sourcing; some clients are connected.
OrchInit ==
  /\ \/ /\ hunterPc = "pushing"
        /\ candidates \in ReturnedLists
        /\ strategies = <<"user">>
        /\ hunter_to_analyzer_queue = <<>>
     \/ /\ hunterPc = "failed"
        /\ candidates = <<>>
        /\ strategies = <<>>
        /\ hunter_to_analyzer_queue = <<None>>
  /\ existing_usernames = {}
  /\ batch_idx = 0
  /\ task = [i \in 1..MaxStrategies |-> IdleTask]
  /\ _processed_usernames = Usernames(candidates)
  /\ fetches = Len(candidates)
  /\ all_candidates = candidates
  /\ push_idx = 1
  /\ analyzer_read = 0
  /\ analyzerPc = "get"
  /\ analyzer_candidate = None
  /\ analyzer_output_queue = <<>>
  /\ ClientInit
  /\ platform = NoPlatform
  /\ BuilderIdle
  /\ OrchStart
  /\ ProcessIdle
  /\ active_connections \in 0..MaxConnections
  /\ publish_failures = 0

OrchNext ==
  \/ EmitProfileFound
  \/ EmitSearchCompleted
  \/ EmitStarted
  \/ EmitCompleted
  \/ AwaitHunter
  \/ AwaitAnalyzer
  \/ SaveResultsReturn
  \/ BroadcastCompleted

OrchSpec == OrchInit /\ [][OrchNext]_vars

\* The event loop resumes every coroutine that is ready, and the store and
\* the sends return.
OrchFairSpec == OrchSpec /\ WF_vars(OrchNext)

(***************************************************************************)
(* The strategy builder and the grouping into batches (hunter.py:306-420,  *)
(* 441-446).  A keyword list is held by its length: the copies and         *)
(* random.shuffle keep it, and which strategies are built depends on       *)
(* nothing else; the keywords only fill the names and the queries.         *)
(***************************************************************************)
\* The longest keyword list of a bundle.
MaxKeywords == 3

KeywordBundles ==
  [core_languages : 0..MaxKeywords,
   primary_frameworks : 0..MaxKeywords,
   related_technologies : 0..MaxKeywords,
   repository_topics : 0..MaxKeywords,
   domain_keywords : 0..MaxKeywords,
   alternative_terms : 0..MaxKeywords]

\* len(self._processed_usernames) when the builder is called
ExistingCounts == {0, 9, 10, 25}

\* The length of a list cut to its first k items.
WholeList(len, k) == len

\* hunter.py:337, 350, 351, 364, 394, 410  list[:k]
Sliced(len, k) == IF len < k THEN len ELSE k

\* hunter.py:341-347  SearchStrategy(name, description, query, page, per_page)
SearchStrategy(category, kind, language, page, per_page) ==
  [category |-> category, kind |-> kind, language |-> language,
   page |-> page, per_page |-> per_page]

Repeat(n, strategy) == [k \in 1..n |-> strategy]

\* hunter.py:306-420
_build_search_strategies(kw, count) ==
  LET search_page == IF count \div 10 + 1 > 1 THEN count \div 10 + 1 ELSE 1
      has_language == kw.core_languages > 0
      topics ==
        Repeat(Sliced(kw.repository_topics, 2),
               SearchStrategy("topic", "user", FALSE, search_page, 12))
      frameworks ==
        Repeat(Sliced(kw.primary_frameworks, 2) * Sliced(kw.core_languages, 1),
               SearchStrategy("framework", "user", TRUE, search_page, 10))
      domains ==
        Repeat(Sliced(kw.domain_keywords, 2),
               SearchStrategy("domain", "user", has_language, search_page, 10))
      tech_stack ==
        Repeat(IF kw.related_technologies >= 2 THEN 1 ELSE 0,
               SearchStrategy("tech_stack", "user", FALSE, search_page, 10))
      alt_terms ==
        Repeat(Sliced(kw.alternative_terms, 2),
               SearchStrategy("alt_term", "user", has_language, search_page, 8))
      repo_contributors ==
        Repeat(IF kw.primary_frameworks > 0
               THEN Sliced(kw.primary_frameworks, 1) ELSE 0,
               SearchStrategy("repo_contributors", "repo", FALSE, 1, 5))
  IN topics \o frameworks \o domains \o tech_stack \o alt_terms
       \o repo_contributors

\* hunter.py:442-446
GroupBatches(ss) ==
  [b \in 1..((Len(ss) + batch_size - 1) \div batch_size) |->
     SubSeq(ss, (b - 1) * batch_size + 1,
            IF b * batch_size < Len(ss) THEN b * batch_size ELSE Len(ss))]

\* hunter.py:85  _extract_keywords has returned a bundle
BuilderInit ==
  /\ PipeInit
  /\ ClientInit
  /\ platform = NoPlatform
  /\ keywords \in KeywordBundles
  /\ existing_count \in ExistingCounts
  /\ built_strategies = <<>>
  /\ strategy_batches = <<>>
  /\ OrchStart
  /\ ProcessIdle
  /\ active_connections = 0
  /\ publish_failures = 0

\* hunter.py:95
BuildStrategies ==
  /\ built_strategies = <<>>
  /\ built_strategies' = _build_search_strategies(keywords, existing_count)
  /\ UNCHANGED <<keywords, existing_count, strategy_batches, platform, processVars, orchVars,
                 wsVars, pipeVars, clientVars>>

\* hunter.py:105, 441-446
ExecuteParallelSearches ==
  /\ built_strategies # <<>>
  /\ strategy_batches = <<>>
  /\ strategy_batches' = GroupBatches(built_strategies)
  /\ UNCHANGED <<keywords, existing_count, built_strategies, platform, processVars, orchVars,
                 wsVars, pipeVars, clientVars>>

BuilderNext ==
  \/ BuildStrategies
  \/ ExecuteParallelSearches

BuilderSpec == BuilderInit /\ [][BuilderNext]_vars

(***************************************************************************)
(* The start and find-more requests of one job and the background tasks    *)
(* they spawn (api/jobs.py:70-79, 164-214; main.py:229-321).  A task is    *)
(* followed through start_job by what it commits to the job's status.      *)
(***************************************************************************)

MaxPipelines == 3

RequestKinds == {"start", "find_more"}

otherPipeVars == <<hunterPc, existing_usernames, strategies, batch_idx, task,
                   fetches, all_candidates, candidates, push_idx,
                   hunter_to_analyzer_queue, analyzer_read, analyzerPc,
                   analyzer_candidate, analyzer_output_queue>>

jobsFrame == <<otherPipeVars, _processed_usernames, clientVars, platform,
               builderVars, orchPc, analyzed_candidates, saved, wsVars, runs,
               _current_job_location, calls>>

\* The task has not returned from run_pipeline_background.
Active(p) == pipelines[p].pc # "ended"

\* The task has not committed the status its start_job ends with.
Unsettled(p) == pipelines[p].pc \in {"spawned", "running"}

\* jobs.py:164-186, 188-214; main.py:229-264, 279-321  the body of either
\* endpoint, which has no await: the status is read, a running job is
\* refused with 400, otherwise running is committed and the task spawned
HandleRequest(kind) ==
  /\ Len(pipelines) < MaxPipelines
  /\ IF job_status = "running"
     THEN /\ response' = 400
          /\ UNCHANGED <<job_status, pipelines>>
     ELSE /\ job_status' = "running"
          /\ pipelines' = Append(pipelines, [kind |-> kind, pc |-> "spawned"])
          /\ response' = 200
  /\ UNCHANGED jobsFrame

\* jobs.py:70-74  the task is scheduled: a session is opened and start_job
\* runs to its first await
PipelineBegins(p) ==
  /\ pipelines[p].pc = "spawned"
  /\ pipelines' = [pipelines EXCEPT ![p].pc = "running"]
  /\ UNCHANGED <<job_status, response, jobsFrame>>

\* orchestrator.py:82-94  completed is committed, then pipeline.completed is
\* broadcast; WebSocketManager.broadcast awaits only when the job has
\* connections (websocket_manager.py:45-47, 59-61)
PipelineCompletes(p) ==
  /\ pipelines[p].pc = "running"
  /\ job_status' = "completed"
  /\ pipelines' = [pipelines EXCEPT ![p].pc =
                     IF active_connections = 0 THEN "ended" ELSE "broadcast"]
  /\ UNCHANGED <<response, jobsFrame>>

\* orchestrator.py:96-105, jobs.py:75-79  failed is committed, the exception
\* is raised and logged by the task
PipelineFails(p) ==
  /\ pipelines[p].pc = "running"
  /\ job_status' = "failed"
  /\ pipelines' = [pipelines EXCEPT ![p].pc = "ended"]
  /\ UNCHANGED <<response, jobsFrame>>

\* orchestrator.py:89-94  the sends of the broadcast return, start_job
\* returns
BroadcastReturns(p) ==
  /\ pipelines[p].pc = "broadcast"
  /\ pipelines' = [pipelines EXCEPT ![p].pc = "ended"]
  /\ UNCHANGED <<job_status, response, jobsFrame>>

\* The job is created (status pending) and clients may be connected.
JobsInit ==
  /\ PipeInit
  /\ ClientInit
  /\ platform = NoPlatform
  /\ BuilderIdle
  /\ orchPc = "await_hunter"
  /\ analyzed_candidates = <<>>
  /\ saved = <<>>
  /\ job_status = "pending"
  /\ active_connections \in 0..MaxConnections
  /\ publish_failures = 0
  /\ ProcessIdle

JobsNext ==
  \/ \E kind \in RequestKinds : HandleRequest(kind)
  \/ \E p \in DOMAIN pipelines : PipelineBegins(p)
  \/ \E p \in DOMAIN pipelines : PipelineCompletes(p)
  \/ \E p \in DOMAIN pipelines : PipelineFails(p)
  \/ \E p \in DOMAIN pipelines : BroadcastReturns(p)

JobsSpec == JobsInit /\ [][JobsNext]_vars

(***************************************************************************)
(* Two jobs whose pipelines run at once.  The module-level orchestrator    *)
(* (orchestrator.py:23-26, 371-372) holds one HunterAgent, so both calls   *)
(* of execute assign and read the same _processed_usernames and            *)
(* _current_job_location (hunter.py:41-71).                                *)
(***************************************************************************)

sharedFrame == <<otherPipeVars, clientVars, platform, builderVars, orchVars,
                 wsVars, pipelines, response, calls>>

\* hunter.py:60-71  execute is called for job j: after its first event the
\* instance's set and location are assigned from the call's arguments
ExecuteStarts(j) ==
  /\ runs[j].pc = "idle"
  /\ _processed_usernames' = runs[j].existing_usernames
  /\ _current_job_location' = runs[j].location
  /\ runs' = [runs EXCEPT ![j].pc = "keywords"]
  /\ UNCHANGED sharedFrame

\* hunter.py:84-95, 333  the keywords have arrived and the strategies are
\* built with the location the instance holds
StrategiesBuilt(j) ==
  /\ runs[j].pc = "keywords"
  /\ runs' = [runs EXCEPT ![j].pc = "searching",
                          ![j].strategy_location = _current_job_location]
  /\ UNCHANGED <<_processed_usernames, _current_job_location, sharedFrame>>

\* hunter.py:617-626  a search hit of job j's run is tested against the
\* instance's set: skipped, or its profile is requested
UserTested(j, u) ==
  /\ runs[j].pc = "searching"
  /\ runs[j].fetching = 0
  /\ u \notin runs[j].skipped
  /\ runs' = IF u \in _processed_usernames
             THEN [runs EXCEPT ![j].skipped = @ \cup {u}]
             ELSE [runs EXCEPT ![j].fetching = u]
  /\ UNCHANGED <<_processed_usernames, _current_job_location, sharedFrame>>

\* hunter.py:626-680  the profile has passed the filters: the username is
\* added to the instance's set and the candidate to the run's results
UserAdded(j) ==
  /\ runs[j].pc = "searching"
  /\ runs[j].fetching # 0
  /\ _processed_usernames' = _processed_usernames \cup {runs[j].fetching}
  /\ runs' = [runs EXCEPT ![j].accepted = @ \cup {runs[j].fetching},
                          ![j].fetching = 0]
  /\ UNCHANGED <<_current_job_location, sharedFrame>>

\* hunter.py:107-136  the searches are over and execute returns
ExecuteEnds(j) ==
  /\ runs[j].pc = "searching"
  /\ runs[j].fetching = 0
  /\ runs' = [runs EXCEPT ![j].pc = "done"]
  /\ UNCHANGED <<_processed_usernames, _current_job_location, sharedFrame>>

\* Both jobs' start requests were accepted; each job has its stored
\* candidates.
SharedInit ==
  /\ PipeInit
  /\ ClientInit
  /\ platform = NoPlatform
  /\ BuilderIdle
  /\ OrchStart
  /\ active_connections = 0
  /\ publish_failures = 0
  /\ pipelines = <<>>
  /\ response = 0
  /\ \E e \in [Jobs -> SUBSET Users] : runs = [j \in Jobs |-> IdleRun(j, e[j])]
  /\ _current_job_location = "none"
  /\ calls = [c \in 1..2 |-> IdleGetUser]

SharedNext ==
  \/ \E j \in Jobs : ExecuteStarts(j)
  \/ \E j \in Jobs : StrategiesBuilt(j)
  \/ \E j \in Jobs, u \in Users : UserTested(j, u)
  \/ \E j \in Jobs : UserAdded(j)
  \/ \E j \in Jobs : ExecuteEnds(j)

SharedSpec == SharedInit /\ [][SharedNext]_vars

(***************************************************************************)
(* Two strategies of a batch that read profiles at the same time           *)
(* (hunter.py:617-626 -> github_service.py:210-236) through the one        *)
(* _user_cache.                                                            *)
(***************************************************************************)

MaxGetUsers == 3

Strategies == {1, 2}

coalesceFrame == <<call, platform, builderVars, orchVars, wsVars, pipelines,
                   response, runs, _current_job_location>>

\* The entries of the profile cache under a username's key.
EntriesOf(username) ==
  {e \in caches._user_cache : e.key = cache_key("get_user", username)}

GetUserConcludeKeepsFirst(c, username, cache) ==
  LET r == req'[c]
  IN /\ calls' = [calls EXCEPT ![c] =
          IF r.pc \in {"returned", "raised"}
          THEN [pc |-> "done", username |-> username, result |-> r.result,
                value |-> IF r.result = "value" THEN now ELSE 0]
          ELSE [pc |-> "request", username |-> username, result |-> "none",
                value |-> 0]]
     /\ caches' = [caches EXCEPT !._user_cache =
          IF /\ r.result = "value"
             /\ ~ \E e \in cache : e.key = cache_key("get_user", username)
          THEN CacheSet(cache, cache_key("get_user", username), now, now)
          ELSE cache]

\* github_service.py:221-236  what get_user does once _request has returned
\* or raised in this step: a 200 is decoded, stored under the key and
\* returned; a 404 and a failure return None and store nothing.  cache is
\* the profile cache as the lookup left it.
GetUserConclude(c, username, cache) ==
  LET r == req'[c]
  IN /\ calls' = [calls EXCEPT ![c] =
          IF r.pc \in {"returned", "raised"}
          THEN [pc |-> "done", username |-> username, result |-> r.result,
                value |-> IF r.result = "value" THEN now ELSE 0]
          ELSE [pc |-> "request", username |-> username, result |-> "none",
                value |-> 0]]
     /\ caches' = [caches EXCEPT !._user_cache =
          IF r.result = "value"
          THEN CacheSet(cache, cache_key("get_user", username), now, now)
          ELSE cache]

\* github_service.py:210-221  strategy c calls get_user: the lookup, and on
\* a miss the request up to its first await
GetUserCall(c, username) ==
  /\ calls[c].pc \in {"idle", "done"}
  /\ LET g == CacheGet(caches._user_cache, UserTtl,
                       cache_key("get_user", username), now)
     IN IF g.hit
        THEN /\ calls' = [calls EXCEPT ![c] =
                  [pc |-> "done", username |-> username, result |-> "hit",
                   value |-> g.value]]
             /\ UNCHANGED <<clientVars, pipeVars>>
        ELSE /\ Request(c, FALSE, MaxGetUsers)
             /\ GetUserConclude(c, username, g.cache)
  /\ UNCHANGED coalesceFrame

\* The sleep of the gate returns, inside get_user.
GetUserGateWake(c) ==
  /\ calls[c].pc = "request"
  /\ GateWake(c)
  /\ GetUserConclude(c, calls[c].username, caches._user_cache)
  /\ UNCHANGED coalesceFrame

\* The platform answers the request of strategy c's get_user.
GetUserRespond(c) ==
  /\ calls[c].pc = "request"
  /\ Respond(c, Healthy)
  /\ GetUserConclude(c, calls[c].username, caches._user_cache)
  /\ UNCHANGED coalesceFrame

CoalesceNext ==
  \/ \E c \in Strategies, username \in Users : GetUserCall(c, username)
  \/ \E c \in Strategies : GetUserGateWake(c)
  \/ \E c \in Strategies : GetUserRespond(c)
  \/ Tick /\ UNCHANGED <<cacheVars, sideVars>>
  \/ TimePasses /\ UNCHANGED sideVars

CoalesceSpec == Init /\ [][CoalesceNext]_vars

(***************************************************************************)
(* Properties of the pipeline                                              *)
(***************************************************************************)
InFlight(i) == task[i].pc \notin {"idle", "done"}

NoDuplicates(cs) ==
  \A a, b \in DOMAIN cs : cs[a].username = cs[b].username => a = b

Markers(q) == {k \in DOMAIN q : q[k] = None}

\* C1: the strategies in flight all belong to the batch the executor waits
\* for (batches are consecutive runs of 3 of the list), a strategy of a later
\* batch has started only if every strategy of every earlier batch has
\* settled, and at most 3 strategies are in flight.
C1_BatchBarrier ==
  /\ \A i \in 1..MaxStrategies :
        InFlight(i) => /\ hunterPc = "gather"
                       /\ i <= Len(strategies)
                       /\ (i - 1) \div 3 = batch_idx
  /\ \A i, j \in 1..MaxStrategies :
        (i <= Len(strategies) /\ (i - 1) \div 3 < (j - 1) \div 3
         /\ task[j].pc # "idle") => task[i].pc = "done"
  /\ Cardinality({i \in 1..MaxStrategies : InFlight(i)}) <= 3

\* A strategy of the second batch runs, the three of the first have settled.
C1_Witness ==
  /\ hunterPc = "gather"
  /\ batch_idx = 1
  /\ InFlight(4)
  /\ \A i \in 1..3 : task[i].pc = "done"

\* C2 as the specification states it: once a strategy of the batch has
\* ended in RateLimitError, the executor neither returns a candidate list
\* nor dispatches a later batch.
C2_RateLimitAborts ==
  [][(hunterPc = "gather"
      /\ \E i \in BatchMembers(batch_idx) : task[i].result = "RateLimitError")
     => (hunterPc' # "pushing" /\ batch_idx' = batch_idx)]_vars

RECURSIVE SiblingCandidates(_, _)
SiblingCandidates(i, last) ==
  IF i > last THEN <<>>
  ELSE (IF task[i].result = "success" THEN task[i].cands ELSE <<>>)
       \o SiblingCandidates(i + 1, last)

\* C3: a strategy that fails otherwise than by rate limit ends as a failed
\* result: the step leaves its siblings and the executor as they are, the
\* executor goes on to accumulate and never ends by exception, and when the
\* batch settles the accumulator gains every candidate of every successful
\* member, in list order.
C3_FailureIsolated ==
  [][/\ \A i \in 1..MaxStrategies :
          (task[i].result # "failed" /\ task'[i].result = "failed")
          => /\ hunterPc' = hunterPc
             /\ all_candidates' = all_candidates
             /\ \A j \in 1..MaxStrategies \ {i} : task'[j] = task[j]
     /\ (hunterPc = "gather"
         /\ (hunterPc' # "gather" \/ batch_idx' # batch_idx))
        => /\ hunterPc' \in {"gather", "pushing"}
           /\ all_candidates' =
                all_candidates \o
                SiblingCandidates(batch_idx * 3 + 1, LastOfBatch(batch_idx))]_vars

\* The first batch has settled with B failed and A and C successful, and the
\* candidate found by a sibling is in the accumulator.
C3_Witness ==
  /\ hunterPc = "gather"
  /\ batch_idx = 1
  /\ task[1].result = "success"
  /\ task[2].result = "failed"
  /\ task[3].result = "success"
  /\ Len(all_candidates) = 1

\* C4: the list the executor returns, and so what Sourcing puts on its
\* channel before the marker, has no two candidates with one username and
\* no username of existing_usernames.
C4_UniqueUnseeded ==
  /\ NoDuplicates(candidates)
  /\ Usernames(candidates) \cap existing_usernames = {}
  /\ \A a, b \in DOMAIN hunter_to_analyzer_queue :
        (hunter_to_analyzer_queue[a] # None
         /\ hunter_to_analyzer_queue[a].username =
              hunter_to_analyzer_queue[b].username) => a = b
  /\ \A a \in DOMAIN hunter_to_analyzer_queue :
        hunter_to_analyzer_queue[a].username \notin existing_usernames

\* Two strategies accepted the same username and the returned list has
\* exactly one candidate for it.
C4_Witness ==
  /\ hunterPc = "done"
  /\ \E a, b \in DOMAIN all_candidates :
        /\ a < b
        /\ all_candidates[a].username = all_candidates[b].username
        /\ Cardinality({k \in DOMAIN candidates :
              candidates[k].username = all_candidates[a].username}) = 1

\* C5: Sourcing has put no marker while it runs, and once it has terminated,
\* normally or by exception, its channel holds exactly one marker, which is
\* the last item.
C5_OneMarkerLast ==
  IF HunterTerminated
  THEN /\ Cardinality(Markers(hunter_to_analyzer_queue)) = 1
       /\ hunter_to_analyzer_queue[Len(hunter_to_analyzer_queue)] = None
  ELSE Markers(hunter_to_analyzer_queue) = {}

\* Sourcing has terminated by exception; its channel holds the marker.
C5_Witness ==
  /\ hunterPc = "failed"
  /\ hunter_to_analyzer_queue = <<None>>

\* C6: Analysis has terminated exactly when it has put its marker, which is
\* then the only one and the last item of its output; when it terminated
\* normally it had read its input up to the marker and no further; and once
\* Sourcing has terminated, Analysis terminates.
C6_AnalyzerTerminates ==
  /\ [](IF AnalyzerTerminated
         THEN /\ Cardinality(Markers(analyzer_output_queue)) = 1
              /\ analyzer_output_queue[Len(analyzer_output_queue)] = None
         ELSE Markers(analyzer_output_queue) = {})
  /\ [](analyzerPc = "done"
         => Markers(hunter_to_analyzer_queue) = {analyzer_read})
  /\ [](\A k \in 1..analyzer_read :
           k \in Markers(hunter_to_analyzer_queue) => AnalyzerTerminated)
  /\ (HunterTerminated ~> AnalyzerTerminated)

\* Both stages have terminated normally and a candidate went through.
C6_Witness ==
  /\ hunterPc = "done"
  /\ analyzerPc = "done"
  /\ Len(analyzer_output_queue) >= 2

(***************************************************************************)
(* Properties of the client                                                *)
(***************************************************************************)
Free(c) == req[c].pc \in {"idle", "returned", "raised"}

\* This step is caller c starting a request.
Starts(c) ==
  /\ started' = started + 1
  /\ Free(c)
  /\ \A d \in Callers : d < c => ~Free(d)

\* The bucket holds the caller back: one request left at most, and the
\* reset still to come, SecondsToReset seconds from now.
Blocked(is_search) ==
  Remaining(is_search) <= 1 /\ ResetEpoch(is_search) > now

SecondsToReset(is_search) == ResetEpoch(is_search) - now

\* C7: a call that finds its bucket with remaining <= 1 and the reset in the
\* future makes no attempt in that step: it raises RateLimitError, or it
\* starts a sleep of at least reset - now seconds; and the call leaves that
\* sleep only by dispatching its first attempt, at or after the reset epoch
\* it had read.
C7_GateHoldsBack ==
  [][\A c \in Callers :
       /\ (Starts(c) /\ Blocked(req'[c].is_search))
          => /\ req'[c].attempts = 0
             /\ \/ req'[c].pc = "raised"
                \/ /\ req'[c].pc = "gate_sleep"
                   /\ req'[c].seen_reset = ResetEpoch(req'[c].is_search)
                   /\ req'[c].slept >= 10 * SecondsToReset(req'[c].is_search)
       /\ (req[c].pc = "gate_sleep" /\ req'[c].pc # "gate_sleep")
          => /\ req'[c].pc = "inflight"
             /\ now >= req[c].seen_reset]_vars

\* A first attempt is in flight that the gate had held back by a sleep.
C7_Witness ==
  \E c \in Callers :
    /\ req[c].pc = "inflight"
    /\ req[c].gate = "sleep"
    /\ req[c].attempt = 0

\* C8 as the specification states it: held back with wait = reset - now,
\* the call sleeps exactly when wait <= 60 and raises exactly when wait > 60.
C8_SleepsUpTo60 ==
  [][\A c \in Callers :
       (Starts(c) /\ Blocked(req'[c].is_search))
       => /\ req'[c].pc = "gate_sleep"
               <=> SecondsToReset(req'[c].is_search) <= 60
          /\ req'[c].pc = "raised"
               <=> SecondsToReset(req'[c].is_search) > 60]_vars

\* C8 as the code has it: held back with wait = reset - now, the call sleeps
\* exactly when wait <= 59 and raises RateLimitError, carrying the reset
\* time, exactly when wait >= 60.
C8_SleepsUpTo59 ==
  [][\A c \in Callers :
       (Starts(c) /\ Blocked(req'[c].is_search))
       => /\ req'[c].pc = "gate_sleep"
               <=> SecondsToReset(req'[c].is_search) <= 59
          /\ (/\ req'[c].pc = "raised"
              /\ req'[c].reset_time = ResetEpoch(req'[c].is_search))
               <=> SecondsToReset(req'[c].is_search) >= 60]_vars

\* A call has raised at the gate with the reset exactly 60 seconds away.
C8_Witness ==
  \E c \in Callers :
    /\ req[c].pc = "raised"
    /\ req[c].attempts = 0
    /\ Remaining(req[c].is_search) <= 1
    /\ req[c].reset_time = ResetEpoch(req[c].is_search)
    /\ SecondsToReset(req[c].is_search) = 60

\* C9: the gate makes no reservation.  A call that passes the gate reads
\* the remaining count and leaves it as it is, and a bucket's count changes
\* only in a step in which a response of a request on that bucket arrives.
C9_NoReservation ==
  [][/\ \A c \in Callers :
          (Starts(c) /\ req'[c].pc = "inflight")
          => req'[c].seen_remaining = Remaining(req'[c].is_search)
     /\ \A b \in BOOLEAN :
          (IF b THEN _search_rate_limit_remaining' # _search_rate_limit_remaining
           ELSE _rate_limit_remaining' # _rate_limit_remaining)
          => \E c \in Callers : /\ req[c].pc = "inflight"
                                /\ req[c].is_search = b
                                /\ req'[c].pc # "inflight"]_vars

\* Over-dispatch: on a bucket with remaining = r, 1 < r < 3, more than r
\* first attempts are in flight, each dispatched after the gate read r, and
\* no response has changed the count yet.
C9_OverDispatch ==
  \E b \in BOOLEAN, r \in 2..(batch_size - 1) :
    /\ Remaining(b) = r
    /\ Cardinality({c \in Callers : /\ req[c].pc = "inflight"
                                    /\ req[c].is_search = b
                                    /\ req[c].attempt = 0
                                    /\ req[c].gate = "pass"
                                    /\ req[c].seen_remaining = r}) > r

Running(c) == req[c].pc \in {"gate_sleep", "inflight", "retry_sleep"}

\* C10: a request never makes more than 3 network attempts; a request whose
\* latest response is a 200 or a 404 has returned that response and neither
\* sleeps nor is in flight again; and every request that has started
\* returns or raises.
C10_ThreeAttempts ==
  /\ [](\A c \in Callers :
          /\ req[c].attempts <= 3
          /\ req[c].status \in {200, 404}
             => /\ req[c].pc = "returned"
                /\ req[c].wake = 0
                /\ req[c].slept = 0)
  /\ \A c \in Callers : Running(c) ~> Free(c)

\* A request has returned a 200 received on its third attempt.
C10_Witness ==
  \E c \in Callers :
    /\ req[c].pc = "returned"
    /\ req[c].attempts = 3
    /\ req[c].status = 200

\* A response of c arrives in this step, with a status in S.
Answered(c, S) ==
  /\ req[c].pc = "inflight"
  /\ req'[c].pc # "inflight"
  /\ req'[c].status \in S

\* C11: a 403 or 429 takes its wait from the reset header of the response
\* when it has one (the seconds left to that time, at least 1) and from
\* Retry-After otherwise (60 when that is absent too); a wait above 120
\* raises RateLimitError at once, with no further attempt; any other wait
\* is slept in full, and then the next attempt is made if the three
\* attempts are not used up.
C11_LimitedWaitOrRaise ==
  [][\A c \in Callers :
       /\ Answered(c, {403, 429}) =>
            LET reset == req'[c].hdr_reset
                after == req'[c].hdr_retry_after
                wait == IF reset # Absent /\ reset > 0
                        THEN (IF reset - now >= 1 THEN reset - now ELSE 1)
                        ELSE (IF after # Absent THEN after ELSE 60)
            IN IF wait > 120
               THEN /\ req'[c].pc = "raised"
                    /\ req'[c].attempts = req[c].attempts
               ELSE /\ req'[c].pc = "retry_sleep"
                    /\ req'[c].wake = now + wait
                    /\ req'[c].slept = 10 * wait
                    /\ req'[c].attempts = req[c].attempts
       /\ ( /\ req[c].pc = "retry_sleep"
            /\ req[c].status \in {403, 429}
            /\ req'[c] # req[c] ) =>
              /\ now >= req[c].wake
              /\ IF req[c].attempts < 3
                 THEN /\ req'[c].pc = "inflight"
                      /\ req'[c].attempts = req[c].attempts + 1
                 ELSE req'[c].pc = "returned" /\ req'[c].status = 0
       /\ ( /\ req[c].pc = "raised"
            /\ req'[c] # req[c] ) => Starts(c)]_vars

\* The second attempt of a request was answered 429 with a reset header
\* more than 120 seconds ahead, and the request raised.
C11_Witness ==
  \E c \in Callers :
    /\ req[c].pc = "raised"
    /\ req[c].status = 429
    /\ req[c].attempts = 2
    /\ req[c].hdr_reset - now > 120

\* C12: when the three attempts of a request all end without a response or
\* with a status of 500 or more, the request returns None after the last
\* sleep, the read operation built on it gives the empty result and raises
\* nothing, and a user-search strategy given that result ends successfully
\* with no candidate.
C12_TransientFailureIsEmpty ==
  [][\A c \in Callers :
       ( /\ req[c].pc = "retry_sleep"
         /\ req[c].attempts = 3
         /\ ~req[c].limited
         /\ req'[c] # req[c] ) =>
           /\ req'[c].pc = "returned"
           /\ req'[c].status = 0
           /\ req'[c].attempts = 3
           /\ req'[c].result = "empty"
           /\ \A processed \in SUBSET Users, more \in BOOLEAN :
                \A nt \in _execute_user_search(StartTask("user"),
                              req'[c].result, processed, more) :
                   /\ nt.pc = "done"
                   /\ nt.result = "success"
                   /\ nt.cands = <<>>]_vars

\* A search request has returned None after three attempts, none of them
\* answered 403 or 429, and search_users has given the empty list.
C12_Witness ==
  \E c \in Callers :
    /\ req[c].pc = "returned"
    /\ req[c].is_search
    /\ req[c].attempts = 3
    /\ req[c].status = 0
    /\ ~req[c].limited
    /\ req[c].result = "empty"
    /\ failures = 3

(***************************************************************************)
(* Properties of the caches                                                *)
(***************************************************************************)
\* This step is the caller calling the read operation that the entry e was
\* stored by, with the same arguments.
CallsFor(e) ==
  /\ call.pc \in {"idle", "done"}
  /\ call'.pc \in {"request", "done"}
  /\ call' # call
  /\ cache_key(call'.op, call'.param) = e.key

\* The lifetime of the entries of a cache, by class.
ClassTtl(name) == IF name = "_user_cache" THEN 600 ELSE 300

Age(e) == now - e.timestamp

\* C13: a read operation called while its cache holds an entry for its key
\* written less than the class lifetime ago returns the stored value in
\* the same step: no request is started, the gate is not consulted (no
\* sleep, no RateLimitError, whatever the bucket holds), and neither
\* bucket nor the cache changes.
C13_FreshHitTouchesNothing ==
  [][\A name \in DOMAIN caches : \A e \in caches[name] :
       (CallsFor(e) /\ Age(e) < ClassTtl(name)) =>
          /\ call'.pc = "done"
          /\ call'.result = "hit"
          /\ call'.value = e.value
          /\ UNCHANGED <<now, req, started, headers, _rate_limit_remaining,
                         _rate_limit_reset, _search_rate_limit_remaining,
                         _search_rate_limit_reset, caches>>]_vars

\* A profile was served from the cache while the general bucket was used
\* up and its reset more than a minute away.
C13_Witness ==
  /\ call.pc = "done"
  /\ call.op = "get_user"
  /\ call.result = "hit"
  /\ _rate_limit_remaining = 0
  /\ _rate_limit_reset - now > 60
  /\ req[1].pc = "returned"

\* The cache called name holds an entry for the key of e.
Holds(cs, name, e) == \E x \in cs[name] : x.key = e.key

\* C14: an entry is served only while its age is below the lifetime of its
\* class (600 s for profiles, 300 s for searches and for repositories). A
\* read of its key at age >= lifetime is not served from the cache: the
\* entry is deleted in that step and the operation goes on to its request,
\* which is dispatched at once unless the rate-limit gate holds it back.
\* Nothing else deletes an entry but a store under the same key, clear_cache
\* and cleanup_expired, and cleanup_expired deletes expired entries only.
C14_LazyExpiry ==
  [][\A name \in DOMAIN caches : \A e \in caches[name] :
       /\ (CallsFor(e) /\ call'.result = "hit") => Age(e) < ClassTtl(name)
       /\ (CallsFor(e) /\ Age(e) >= ClassTtl(name)) =>
             /\ call'.result # "hit"
             /\ ~Holds(caches', name, e)
             /\ started' = started + 1
             /\ req'[1].pc \in {"inflight", "gate_sleep", "raised"}
             /\ ~Blocked(IsSearch(call'.op)) =>
                   req'[1].pc = "inflight" /\ req'[1].attempts = 1
       /\ e \notin caches'[name] =>
             \/ CallsFor(e) /\ Age(e) >= ClassTtl(name)
             \/ /\ call.pc = "request"
                /\ cache_key(call.op, call.param) = e.key
                /\ \E x \in caches'[name] :
                      x.key = e.key /\ x.timestamp = now
             \/ caches' = NoEntries /\ call' = IdleCall
             \/ /\ Age(e) >= ClassTtl(name)
                /\ call' = call
                /\ caches'[name] \subseteq caches[name]]_vars

\* A profile stored 600 seconds ago has been looked up: the entry is gone
\* and the request for a new copy is in flight.
C14_Witness ==
  /\ call.pc = "request"
  /\ call.op = "get_user"
  /\ call.evicted
  /\ now = 1600
  /\ caches["_user_cache"] = {}
  /\ req[1].pc = "inflight"

\* This step is the caller repeating the call it has just completed.
Repeats ==
  /\ call.pc = "done"
  /\ call'.pc \in {"request", "done"}
  /\ call' # call
  /\ call'.op = call.op
  /\ call'.param = call.param

\* The lifetime of what an operation returns, by class.
OperationTtl(op) == IF op = "get_user" THEN 600 ELSE 300

\* C15: each of the eight read operations looks in the cache before any
\* request: a call that repeats the one just completed, whose data the
\* platform served with a 200 less than the class lifetime ago, starts no
\* request and is served from the cache.
C15_EveryReadCached ==
  [][( /\ Repeats
       /\ call.result \in {"value", "hit"}
       /\ now - call.value < OperationTtl(call.op) ) =>
          /\ started' = started
          /\ call'.result = "hit"]_vars

\* C16: every response, whatever its status and on whichever attempt, sets
\* the remaining and the reset field of the bucket the request names to
\* the values of the response's headers; a field whose header is absent
\* keeps its value; the other bucket keeps both its fields.
C16_BucketFollowsHeaders ==
  [][\A c \in Callers :
       ( /\ req[c].pc = "inflight"
         /\ req'[c].pc # "inflight"
         /\ req'[c].status # 0 ) =>
           LET remaining == req'[c].hdr_remaining
               reset == req'[c].hdr_reset
           IN IF req[c].is_search
              THEN /\ _search_rate_limit_remaining' =
                        IF remaining = Absent
                        THEN _search_rate_limit_remaining ELSE remaining
                   /\ _search_rate_limit_reset' =
                        IF reset = Absent
                        THEN _search_rate_limit_reset ELSE reset
                   /\ UNCHANGED <<_rate_limit_remaining, _rate_limit_reset>>
              ELSE /\ _rate_limit_remaining' =
                        IF remaining = Absent
                        THEN _rate_limit_remaining ELSE remaining
                   /\ _rate_limit_reset' =
                        IF reset = Absent THEN _rate_limit_reset ELSE reset
                   /\ UNCHANGED <<_search_rate_limit_remaining,
                                  _search_rate_limit_reset>>]_vars

\* The second attempt of a search request was answered 500 with a reset
\* header and no remaining header: the search bucket has the new reset
\* and its old count, the general bucket is as it was.
C16_Witness ==
  \E c \in Callers :
    /\ req[c].pc = "retry_sleep"
    /\ req[c].is_search
    /\ req[c].attempts = 2
    /\ req[c].status = 500
    /\ req[c].hdr_remaining = Absent
    /\ req[c].hdr_reset = now
    /\ _search_rate_limit_reset = now
    /\ _search_rate_limit_remaining = 30
    /\ _rate_limit_remaining = 5000
    /\ _rate_limit_reset = 0

(***************************************************************************)
(* Properties of the executor's result                                     *)
(***************************************************************************)
\* The executor leaves its wait for the current batch in this step.
BatchEnds ==
  /\ hunterPc = "gather"
  /\ hunterPc' # "gather" \/ batch_idx' # batch_idx

\* C17: when a batch has settled and its candidates are accumulated, a count
\* of accepted candidates that has reached MAX_CANDIDATES_PER_JOB ends the
\* search: no strategy of a later batch is dispatched, then or later; with a
\* lower count and batches left, every strategy of the next batch is
\* dispatched. A strategy of a batch not yet reached is never running.
C17_CapSkipsLaterBatches ==
  /\ [][BatchEnds =>
          IF Len(all_candidates') >= MAX_CANDIDATES_PER_JOB
          THEN /\ hunterPc' = "pushing"
               /\ batch_idx' = batch_idx
               /\ \A i \in 1..MaxStrategies : task'[i].pc = "idle"
          ELSE IF batch_idx + 1 < NumBatches
               THEN /\ hunterPc' = "gather"
                    /\ batch_idx' = batch_idx + 1
                    /\ \A i \in 1..Len(strategies) :
                          (i - 1) \div 3 = batch_idx + 1 =>
                             task'[i].pc \in {"search_users",
                                              "search_repositories"}
               ELSE hunterPc' = "pushing"]_vars
  /\ [](\A i \in 1..MaxStrategies :
          (hunterPc # "gather" \/ (i - 1) \div 3 > batch_idx)
             => task[i].pc = "idle")

\* The first batch brought the count to the cap while a second batch was
\* waiting: the executor has returned without dispatching it.
C17_Witness ==
  /\ hunterPc = "pushing"
  /\ batch_idx = 0
  /\ Len(strategies) > 3
  /\ Len(all_candidates) >= MAX_CANDIDATES_PER_JOB
  /\ \A i \in 1..MaxStrategies : task[i].pc = "idle"

\* The places of all_candidates that hold the first candidate of a username.
Firsts ==
  {k \in DOMAIN all_candidates :
     \A j \in 1..(k - 1) :
        all_candidates[j].username # all_candidates[k].username}

\* C18: the list the executor returns holds, for each username it has, the
\* first candidate accumulated under that username and no other; it is in
\* non-increasing order of quality score; its length is the cap, or the
\* number of distinct usernames accumulated when that is smaller; and no
\* first candidate it leaves out scores higher than one it holds.
C18_DedupSortTruncate ==
  hunterPc \in {"pushing", "done"} =>
    /\ NoDuplicates(candidates)
    /\ \A a \in DOMAIN candidates :
          \E k \in Firsts : all_candidates[k] = candidates[a]
    /\ \A a, b \in DOMAIN candidates :
          a < b => candidates[a].quality_score >= candidates[b].quality_score
    /\ Len(candidates) =
          IF Cardinality(Firsts) < MAX_CANDIDATES_PER_JOB
          THEN Cardinality(Firsts) ELSE MAX_CANDIDATES_PER_JOB
    /\ \A k \in Firsts :
          all_candidates[k].username \notin Usernames(candidates) =>
            \A a \in DOMAIN candidates :
               all_candidates[k].quality_score <= candidates[a].quality_score

\* More usernames were accumulated than the cap allows, one of them twice
\* and the first time with the lower score; the list returned is full and
\* its first candidate scores higher than its last.
C18_Witness ==
  /\ hunterPc = "pushing"
  /\ Cardinality(Firsts) > MAX_CANDIDATES_PER_JOB
  /\ Len(all_candidates) > Cardinality(Firsts)
  /\ Len(candidates) = MAX_CANDIDATES_PER_JOB
  /\ candidates[1].quality_score > candidates[Len(candidates)].quality_score
  /\ all_candidates[1].quality_score < 10

(***************************************************************************)
(* Properties of the acceptance of a profile                               *)
(***************************************************************************)
\* Every candidate a strategy holds, the executor has accumulated or
\* returned, or Sourcing has put on its channel.
EveryCandidate ==
  UNION {{task[i].cands[k] : k \in DOMAIN task[i].cands}
         : i \in 1..MaxStrategies}
  \cup {all_candidates[k] : k \in DOMAIN all_candidates}
  \cup {candidates[k] : k \in DOMAIN candidates}
  \cup {hunter_to_analyzer_queue[k] :
          k \in DOMAIN hunter_to_analyzer_queue \ Markers(hunter_to_analyzer_queue)}

\* C19: every candidate accepted, by a user-search strategy or by a
\* repo-contributor strategy, has an integer quality score from 3 to 10.
C19_ScoreFrom3To10 ==
  \A c \in EveryCandidate :
    c.quality_score \in Int /\ 3 <= c.quality_score /\ c.quality_score <= 10

\* A repo-contributor strategy has accepted a candidate scoring 3 and a
\* user-search strategy one whose points add up to 11 and who scores 10.
C19_Witness ==
  \E i, j \in DOMAIN strategies :
    /\ strategies[i] = "repo"
    /\ strategies[j] = "user"
    /\ \E k \in DOMAIN task[i].cands : task[i].cands[k].quality_score = 3
    /\ \E k \in DOMAIN task[j].cands : task[j].cands[k].quality_score = 10

\* C20: no candidate of a run comes from a profile with more than 100
\* public repositories and fewer than 50 followers, whichever kind of
\* strategy found it.
C20_NoTutorialAccount ==
  \A c \in EveryCandidate : ~(c.public_repos > 100 /\ c.followers < 50)

(***************************************************************************)
(* Properties of the filter chain                                          *)
(***************************************************************************)
\* The increments of the score, as documented.
Points(p) ==
  (IF p.public_repos >= 20 THEN 3 ELSE IF p.public_repos >= 10 THEN 2
   ELSE IF p.public_repos >= 5 THEN 1 ELSE 0)
  + (IF p.bio_len >= 50 THEN 2 ELSE IF p.bio_len >= 20 THEN 1 ELSE 0)
  + (IF p.has_name THEN 1 ELSE 0)
  + (IF p.has_contact THEN 1 ELSE 0)
  + (IF p.followers >= 100 THEN 2 ELSE IF p.followers >= 25 THEN 1 ELSE 0)
  + (IF p.hireable THEN 1 ELSE 0)
  + (IF p.followers > 0 /\ p.following > 0
        /\ 3 * p.following <= 10 * p.followers
        /\ p.followers <= 10 * p.following THEN 1 ELSE 0)

\* The profile of the documented example: its increments add up to 11.
Example(p) ==
  /\ p.public_repos = 20
  /\ p.followers = 150
  /\ p.bio_len = 60
  /\ p.hireable
  /\ p.has_name
  /\ p.has_contact
  /\ p.following = 30

\* C21: the quality score is a function of the profile's fields only: it
\* is the smaller of 10 and the sum of the documented increments (repos,
\* bio length, name, location/email/company, followers, hireable, ratio of
\* followers to following), so equal fields give equal scores; the score a
\* candidate carries is that value; and the documented example (20 repos,
\* 150 followers, bio of 60, hireable, name, location, following 30: sum
\* 11) scores exactly 10.
C21_ScoreIsPureFunction ==
  LET p == platform.profile
      expected == IF Points(p) < 10 THEN Points(p) ELSE 10
  IN p # NoProfile =>
       /\ _calculate_quality_score(p) = expected
       /\ \A c \in EveryCandidate : c.quality_score = expected
       /\ Example(p) => /\ Points(p) = 11
                        /\ _calculate_quality_score(p) = 10
                        /\ \A c \in EveryCandidate : c.quality_score = 10

\* The documented example has been accepted with a score of 10.
C21_Witness ==
  /\ Example(platform.profile)
  /\ Len(task[1].cands) = 1
  /\ task[1].cands[1].quality_score = 10

\* The activity check of the lone strategy ends in this step.
ActivityChecked ==
  /\ task[1].pc = "_check_recent_activity"
  /\ task'[1] # task[1]

\* The step accepts the profile under consideration.
Accepts ==
  /\ Len(task'[1].cands) = Len(task[1].cands) + 1
  /\ task'[1].cands[Len(task'[1].cands)].username = task[1].user
  /\ task[1].user \in _processed_usernames'

\* C22: in the recent-activity check, a failure to determine activity is a
\* pass: when get_user_repos gives no repository (the empty list of a
\* failed request included) or an exception is raised, the profile is not
\* rejected by this rule, and is accepted if its score is 3 or more.
C22_UndeterminedActivityPasses ==
  [][( /\ ActivityChecked
       /\ platform.repos \in {"empty", "RateLimitError", "Exception"}
       /\ Points(task[1].profile) >= 3 ) => Accepts]_vars

\* Hard rejects 1 to 6 as documented.
Rule(k, p) ==
  CASE k = 1 -> p.type = "Organization"
    [] k = 2 -> p.org_marker
    [] k = 3 -> p.public_repos > 100 /\ p.followers < 50
    [] k = 4 -> p.public_repos < 3
    [] k = 5 -> p.following > 3 * p.followers /\ p.followers > 10
    [] OTHER -> /\ p.bio_len = 0
                /\ ~(p.public_repos >= 10)
                /\ ~(p.followers >= 50)

FirstMatch(p) == {k \in 1..6 : Rule(k, p) /\ \A j \in 1..(k - 1) : ~Rule(j, p)}

\* C23: the chain stops at the first of hard rejects 1 to 6 that matches:
\* when the profile of a hit arrives and one of the six rules matches it,
\* the hit is passed over in that step, whatever its score, and the
\* repository fetch of the recent-activity check (rule 7) is not issued for
\* it; when none matches, that fetch is issued. A profile is accepted only
\* after that check, and only if none of rules 1 to 7 matches it and its
\* score is 3 or more.
C23_ShortCircuit ==
  [][/\ (task[1].pc = "get_user" /\ task'[1] # task[1]) =>
          IF FirstMatch(platform.profile) # {}
          THEN /\ task'[1].pc = "done"
               /\ task'[1].cands = <<>>
               /\ task'[1].profile = NoProfile
               /\ _processed_usernames' = _processed_usernames
               /\ fetches' = fetches
          ELSE /\ task'[1].pc = "_check_recent_activity"
               /\ task'[1].profile = platform.profile
               /\ task'[1].cands = <<>>
     /\ (task'[1].cands # task[1].cands) =>
          /\ Accepts
          /\ task[1].pc = "_check_recent_activity"
          /\ task[1].profile = platform.profile
          /\ FirstMatch(platform.profile) = {}
          /\ platform.repos # "stale"
          /\ Points(platform.profile) >= 3]_vars

\* A profile that only rule 6 matches (no bio, 5 repositories, 25
\* followers) and whose score would be 3 or more has been passed over
\* without an activity check.
C23_Witness ==
  /\ FirstMatch(platform.profile) = {6}
  /\ Points(platform.profile) >= 3
  /\ task[1].pc = "done"
  /\ task[1].cands = <<>>
  /\ _processed_usernames = {}

(***************************************************************************)
(* Properties of the dedup set                                             *)
(***************************************************************************)
\* C24: a hit or a contributor whose username is in the dedup set when the
\* loop comes to it gets no profile fetch (and so no filter and no score):
\* every fetch dispatched is for a username outside the set as it is at
\* that moment; no fetch is ever in flight for a seeded username, nor for
\* one accepted in an earlier batch.
C24_SkipBeforeFetch ==
  /\ [][/\ \A i \in 1..MaxStrategies :
             (task'[i] # task[i] /\ IsFetch(task'[i])) =>
                /\ task'[i].user \notin _processed_usernames'
                /\ fetches' = fetches + 1
        /\ fetches' # fetches =>
             \E i \in 1..MaxStrategies :
                /\ IsFetch(task'[i])
                /\ task'[i].user \notin _processed_usernames'
                /\ \A j \in 1..MaxStrategies \ {i} : task'[j] = task[j]]_vars
  /\ [](\A i \in 1..MaxStrategies :
          IsFetch(task[i]) =>
             /\ task[i].user \notin existing_usernames
             /\ task[i].user \notin Usernames(all_candidates))

\* The first login was seeded or accepted in the first batch, and a
\* strategy of the second batch is fetching the profile of the second.
C24_Witness ==
  /\ hunterPc = "gather"
  /\ batch_idx = 1
  /\ Usernames(all_candidates) = {1}
  /\ _processed_usernames = {1}
  /\ IsFetch(task[4])
  /\ task[4].user = 2

\* Strategy i accepts a profile of username u in this step.
AcceptsUser(i, u) ==
  /\ Len(task'[i].cands) = Len(task[i].cands) + 1
  /\ task'[i].cands[Len(task'[i].cands)].username = u
  /\ task[i].user = u

\* C25: during a run the dedup set only grows. When execute starts it is
\* set to the usernames already found for the job; from then on every step
\* keeps all its members, a username enters it only in a step in which a
\* strategy, of either kind, accepts a profile of that username, and every
\* accepted username is in it from that step on.
C25_DedupSetGrows ==
  /\ [][IF hunterPc = "idle" /\ hunterPc' # "idle"
        THEN _processed_usernames' = existing_usernames'
        ELSE /\ _processed_usernames \subseteq _processed_usernames'
             /\ existing_usernames' = existing_usernames
             /\ \A u \in _processed_usernames' \ _processed_usernames :
                   \E i \in 1..MaxStrategies : AcceptsUser(i, u)
             /\ \A u \in Users, i \in 1..MaxStrategies :
                   AcceptsUser(i, u) => u \in _processed_usernames']_vars
  /\ [](hunterPc # "idle" => existing_usernames \subseteq _processed_usernames)

\* Nothing was seeded; a user search has accepted the first login and a
\* repo-contributor strategy the second, and the set holds both.
C25_Witness ==
  /\ existing_usernames = {}
  /\ _processed_usernames = {1, 2}
  /\ \E i, j \in DOMAIN strategies :
        /\ strategies[i] = "user"
        /\ strategies[j] = "repo"
        /\ Usernames(task[i].cands) = {1}
        /\ Usernames(task[j].cands) = {2}

(***************************************************************************)
(* Properties of the orchestrator                                          *)
(***************************************************************************)
NotMarker(c) == c # None

\* C26: a publish that fails fails nothing. In a step in which a progress
\* event, pipeline.completed included, is not delivered, no stage ends by
\* exception, the job is not marked failed, and a marker is put only by a
\* stage that ends normally in that step. So, whatever was delivered,
\* Sourcing pushes the candidates of its list in order and then one
\* marker, and a completed job has both stages ended normally, the status
\* completed and exactly the candidates Analysis forwarded persisted.
C26_PublishNeverFails ==
  /\ [][publish_failures' # publish_failures =>
          /\ hunterPc' = "failed" => hunterPc = "failed"
          /\ analyzerPc' = "failed" => analyzerPc = "failed"
          /\ orchPc' = "failed" => orchPc = "failed"
          /\ job_status' = "failed" => job_status = "failed"
          /\ saved' = saved
          /\ Markers(hunter_to_analyzer_queue') # Markers(hunter_to_analyzer_queue)
               => hunterPc' = "done"
          /\ Markers(analyzer_output_queue') # Markers(analyzer_output_queue)
               => analyzerPc' = "done"]_vars
  /\ [](hunterPc \in {"pushing", "done"} =>
          hunter_to_analyzer_queue =
            SubSeq(candidates, 1, push_idx - 1)
            \o (IF hunterPc = "done" THEN <<None>> ELSE <<>>))
  /\ [](orchPc = "done" =>
          /\ job_status = "completed"
          /\ hunterPc = "done"
          /\ analyzerPc = "done"
          /\ hunter_to_analyzer_queue = candidates \o <<None>>
          /\ saved = SelectSeq(analyzer_output_queue, NotMarker))
  /\ [](job_status = "failed" =>
          \/ hunterPc = "failed"
          \/ analyzerPc = "failed"
          \/ orchPc = "failed" /\ saved = <<>> /\ analyzed_candidates # <<>>
          \/ orchPc = "failed" /\ saved = <<>> /\ Collect(analyzer_output_queue) = <<>>)

\* Two publishes failed and both clients are gone, yet the job is
\* completed with the two candidates Sourcing pushed persisted.
C26_Witness ==
  /\ orchPc = "done"
  /\ job_status = "completed"
  /\ publish_failures = 2
  /\ active_connections = 0
  /\ Len(candidates) = 2
  /\ Usernames(saved) = Usernames(candidates)

(***************************************************************************)
(* Properties of the cap under concurrency                                 *)
(***************************************************************************)
\* C30: the count compared with the cap never includes two entries for one
\* username, and when a batch ends with the count at the cap while batches
\* remain, the list the executor returns holds exactly cap candidates.
C30_CapCountsDistinct ==
  /\ [](hunterPc \in {"gather", "pushing", "done"} => NoDuplicates(all_candidates))
  /\ [][( /\ BatchEnds
          /\ Len(all_candidates') >= MAX_CANDIDATES_PER_JOB
          /\ batch_idx + 1 < NumBatches ) =>
            Len(candidates') = MAX_CANDIDATES_PER_JOB]_vars

\* start_job has returned or raised.
PipelineTerminated == orchPc \in {"done", "failed"}

\* C36: when start_job has terminated the status is not running: it is
\* completed when start_job returned, which it does only after Sourcing and
\* Analysis ended normally and the results were persisted, and failed when
\* start_job raised, which it does only when Sourcing, Analysis or the
\* store raised.  The status changes from running to completed or failed
\* and then no more, and every running job gets there.
C36_StatusFollowsOutcome ==
  /\ [](PipelineTerminated => job_status # "running")
  /\ [](orchPc = "done" =>
          /\ job_status = "completed"
          /\ hunterPc = "done"
          /\ analyzerPc = "done"
          /\ saved = analyzed_candidates)
  /\ [](orchPc = "failed" =>
          /\ job_status = "failed"
          /\ \/ hunterPc = "failed"
             \/ analyzerPc = "failed"
             \/ saved = <<>>)
  /\ [](job_status = "completed" =>
          /\ orchPc \in {"broadcast", "done"}
          /\ hunterPc = "done"
          /\ analyzerPc = "done"
          /\ saved = analyzed_candidates)
  /\ [][job_status' # job_status =>
          /\ job_status = "running"
          /\ job_status' \in {"completed", "failed"}]_vars
  /\ (job_status = "running" ~> PipelineTerminated)

\* Sourcing and Analysis ended normally, the store raised: start_job has
\* raised and the job is failed with nothing persisted.
C36_Witness ==
  /\ orchPc = "failed"
  /\ job_status = "failed"
  /\ hunterPc = "done"
  /\ analyzerPc = "done"
  /\ Len(analyzed_candidates) = 2
  /\ saved = <<>>

\* C38: once Sourcing has ended by exception start_job goes no further
\* than its await of Sourcing: it marks the job failed and raises, and
\* nothing is persisted, whatever Analysis has done.  Candidates are
\* persisted only in a step taken after both stages ended normally, and
\* they are those the orchestrator collected.
C38_SourcingFailurePersistsNothing ==
  /\ [](hunterPc = "failed" =>
          /\ orchPc \in {"await_hunter", "failed"}
          /\ job_status = (IF orchPc = "failed" THEN "failed" ELSE "running")
          /\ analyzed_candidates = <<>>
          /\ saved = <<>>)
  /\ [][(hunterPc = "failed" /\ orchPc' # orchPc) =>
          /\ orchPc' = "failed"
          /\ job_status' = "failed"
          /\ saved' = <<>>]_vars
  /\ [][saved' # saved =>
          /\ hunterPc = "done"
          /\ analyzerPc = "done"
          /\ orchPc = "_save_results"
          /\ saved' = analyzed_candidates
          /\ analyzed_candidates = SelectSeq(analyzer_output_queue, NotMarker)]_vars

\* Sourcing ended by exception, Analysis has read the marker and ended,
\* and start_job has raised with the job failed and nothing persisted.
C38_Witness ==
  /\ hunterPc = "failed"
  /\ analyzerPc = "done"
  /\ orchPc = "failed"
  /\ job_status = "failed"
  /\ saved = <<>>

RECURSIVE IsSubsequence(_, _)
IsSubsequence(a, b) ==
  IF a = <<>> THEN TRUE
  ELSE IF b = <<>> THEN FALSE
  ELSE IF Head(a) = Head(b) THEN IsSubsequence(Tail(a), Tail(b))
  ELSE IsSubsequence(a, Tail(b))

\* What Analysis has forwarded, and what it has received, markers aside.
Forwarded == SelectSeq(analyzer_output_queue, NotMarker)

Received ==
  SelectSeq(SubSeq(hunter_to_analyzer_queue, 1, analyzer_read), NotMarker)

\* C29: what Analysis has forwarded is at every moment an order-preserving
\* subsequence of the candidates it has received from Sourcing, without a
\* repeat, and a marker, if any, is the last item of its output.  The
\* output grows only by the candidate under analysis, the last received,
\* or by a marker, and no candidate is received twice, so a candidate whose
\* analysis gives nothing is not forwarded, then or later.
\* Once both stages have ended normally the orchestrator's list is exactly
\* what was forwarded, markers removed.
C29_OutputIsSubsequence ==
  /\ [](/\ IsSubsequence(Forwarded, Received)
        /\ IsSubsequence(Received, candidates)
        /\ NoDuplicates(Received)
        /\ NoDuplicates(Forwarded)
        /\ \A k \in Markers(analyzer_output_queue) :
              k = Len(analyzer_output_queue))
  /\ [][analyzer_output_queue' # analyzer_output_queue =>
          \/ analyzer_output_queue' = Append(analyzer_output_queue, None)
          \/ /\ analyzerPc = "_analyze_candidate"
             /\ analyzer_candidate = Received[Len(Received)]
             /\ Forwarded' = Append(Forwarded, analyzer_candidate)
             /\ \/ analyzer_output_queue' = Forwarded'
                \/ analyzer_output_queue' = Append(Forwarded', None)]_vars
  /\ [](orchPc \in {"_save_results", "broadcast", "done"} =>
          /\ hunterPc = "done"
          /\ analyzerPc = "done"
          /\ analyzed_candidates = Forwarded
          /\ Len(analyzer_output_queue) = Len(Forwarded) + 1)

\* Of two candidates pushed the first was dropped and the second
\* forwarded, and the orchestrator has collected the second alone.
C29_Witness ==
  /\ orchPc = "_save_results"
  /\ Len(candidates) = 2
  /\ analyzed_candidates = <<candidates[2]>>
  /\ analyzer_output_queue = <<candidates[2], None>>

(***************************************************************************)
(* Properties of the backoff                                               *)
(***************************************************************************)
\* This step is caller c receiving a response with a status of 500 or more.
ServerErrorArrives(c) ==
  /\ req[c].pc = "inflight"
  /\ req'[c].pc = "retry_sleep"
  /\ req'[c].status >= 500

\* This step ends the sleep of caller c after a status of 500 or more.
ServerErrorSleepEnds(c) ==
  /\ req[c].pc = "retry_sleep"
  /\ req[c].status >= 500
  /\ req'[c] # req[c]

\* C28 as stated: on a status of 500 or more at attempt a the client
\* sleeps exactly 2^a seconds (1, 2, 4).
C28_SleepsPowerOfTwo ==
  [][\A c \in Callers :
       ServerErrorArrives(c) =>
         req'[c].slept = (CASE req[c].attempt = 0 -> 10
                            [] req[c].attempt = 1 -> 20
                            [] req[c].attempt = 2 -> 40)]_vars

\* C28: on a status of 500 or more at attempt a (0, 1, 2) the client
\* sleeps 2^a + 0.1 a seconds (1, 2.1, 4.2; slept counts tenths), at least
\* 2^a whole seconds pass before anything else happens to the request, and
\* then attempt a + 1 is dispatched if a < 2 and None is returned if a = 2.
C28_SleepsPowerOfTwoAndATenth ==
  /\ [][\A c \in Callers :
          ServerErrorArrives(c) =>
            /\ req'[c].attempt = req[c].attempt
            /\ req'[c].slept = (CASE req[c].attempt = 0 -> 10
                                  [] req[c].attempt = 1 -> 21
                                  [] req[c].attempt = 2 -> 42)
            /\ req'[c].wake = (CASE req[c].attempt = 0 -> now + 1
                                 [] req[c].attempt = 1 -> now + 2
                                 [] req[c].attempt = 2 -> now + 4)]_vars
  /\ [][\A c \in Callers :
          ServerErrorSleepEnds(c) =>
            /\ now >= req[c].wake
            /\ IF req[c].attempt < 2
               THEN /\ req'[c].pc = "inflight"
                    /\ req'[c].attempt = req[c].attempt + 1
               ELSE /\ req'[c].pc = "returned"
                    /\ req'[c].status = 0]_vars

\* The third attempt has been answered 500 and the client sleeps 4.2 s.
C28_Witness ==
  \E c \in Callers :
    /\ req[c].pc = "retry_sleep"
    /\ req[c].status = 500
    /\ req[c].attempt = 2
    /\ req[c].slept = 42

(***************************************************************************)
(* Properties of the strategy builder                                      *)
(***************************************************************************)
InCategory(ss, category) ==
  Cardinality({k \in DOMAIN ss : ss[k].category = category})

RECURSIVE Flatten(_)
Flatten(bs) == IF bs = <<>> THEN <<>> ELSE Head(bs) \o Flatten(Tail(bs))

\* C27: whatever the keyword bundle, the builder returns at most 2 topic,
\* 2 framework+language, 2 domain, 1 two-technology, 2 alternative-term and
\* 1 repo-contributor strategies, so at most 3 of a category and at most 10
\* in all, and the executor groups them, in order, into at most 4 batches
\* of at most 3.
C27_StrategyCountBounded ==
  /\ InCategory(built_strategies, "topic") <= 2
  /\ InCategory(built_strategies, "framework") <= 2
  /\ InCategory(built_strategies, "domain") <= 2
  /\ InCategory(built_strategies, "tech_stack") <= 1
  /\ InCategory(built_strategies, "alt_term") <= 2
  /\ InCategory(built_strategies, "repo_contributors") <= 1
  /\ \A k \in DOMAIN built_strategies :
        InCategory(built_strategies, built_strategies[k].category) <= 3
  /\ Len(built_strategies) <= 10
  /\ Len(strategy_batches) <= 4
  /\ \A b \in DOMAIN strategy_batches : Len(strategy_batches[b]) \in 1..batch_size
  /\ strategy_batches # <<>> => Flatten(strategy_batches) = built_strategies

\* Every list of the bundle is longer than its slice, and the ten
\* strategies built run as four batches.
C27_Witness ==
  /\ \A f \in DOMAIN keywords : keywords[f] = 3
  /\ Len(built_strategies) = 10
  /\ Len(strategy_batches) = 4
  /\ Len(strategy_batches[4]) = 1

(***************************************************************************)
(* Properties of the gate                                                  *)
(***************************************************************************)
Settled(c) == req[c].pc \in {"idle", "returned", "raised"}

\* The bucket of caller c's request is at 1 or less and resets later.
BucketLow(c) ==
  /\ Remaining(req[c].is_search) <= 1
  /\ ResetEpoch(req[c].is_search) > now

\* C32: the gate acts once per request, before the first attempt.  A gate
\* sleep starts only as a request starts and ends in attempt 0; a request
\* raises without a status only as it starts; and the end of a retry sleep
\* after attempt 0 or 1 dispatches the next attempt at once, the clock and
\* the buckets untouched, also when the bucket is at 1 or less with its
\* reset in the future.
C32_GateOnlyBeforeFirstAttempt ==
  [][\A c \in Callers :
       /\ (req'[c].pc = "gate_sleep" /\ req[c].pc # "gate_sleep") => Settled(c)
       /\ (req[c].pc = "gate_sleep" /\ req'[c].pc # "gate_sleep") =>
             req'[c].pc = "inflight" /\ req'[c].attempt = 0
       /\ (req'[c].pc = "raised" /\ req'[c] # req[c] /\ ~Settled(c)) =>
             req[c].pc = "inflight" /\ req'[c].status \in {403, 429}
       /\ (req[c].pc = "retry_sleep" /\ req'[c] # req[c]
              /\ req[c].attempt < 2) =>
             /\ req'[c].pc = "inflight"
             /\ req'[c].attempt = req[c].attempt + 1
             /\ now' = now
             /\ req[c].wake <= now
             /\ UNCHANGED <<_rate_limit_remaining, _rate_limit_reset,
                            _search_rate_limit_remaining,
                            _search_rate_limit_reset>>]_vars

\* The second attempt is in flight although the response to the first
\* left the bucket at 1 or less with its reset in the future.
C32_Witness ==
  \E c \in Callers :
    /\ req[c].pc = "inflight"
    /\ req[c].attempt = 1
    /\ req[c].gate = "none"
    /\ BucketLow(c)

\* C33: when the third attempt of a request has been answered 403 or 429
\* with a wait of at most 120 seconds, the end of that sleep returns None:
\* nothing is raised, the read operation built on the request gives the
\* empty result, and a user-search strategy given that result ends
\* successfully with no candidate.
C33_ExhaustedLimitIsEmpty ==
  [][\A c \in Callers :
       ( /\ req[c].pc = "retry_sleep"
         /\ req[c].attempts = 3
         /\ req[c].status \in {403, 429}
         /\ req'[c] # req[c] ) =>
           /\ req[c].limited
           /\ req[c].slept <= 1200
           /\ req'[c].pc = "returned"
           /\ req'[c].status = 0
           /\ req'[c].attempts = 3
           /\ req'[c].result = "empty"
           /\ \A processed \in SUBSET Users, more \in BOOLEAN :
                \A nt \in _execute_user_search(StartTask("user"),
                              req'[c].result, processed, more) :
                   /\ nt.pc = "done"
                   /\ nt.result = "success"
                   /\ nt.cands = <<>>]_vars

\* A search request has returned None after three attempts of which the
\* last was answered 429 with a wait within the limit.
C33_Witness ==
  \E c \in Callers :
    /\ req[c].pc = "returned"
    /\ req[c].is_search
    /\ req[c].attempts = 3
    /\ req[c].limited
    /\ req[c].hdr_retry_after # Absent
    /\ req[c].status = 0
    /\ req[c].result = "empty"
    /\ failures = 3

(***************************************************************************)
(* Properties of a read that fails                                         *)
(***************************************************************************)
\* This step ends a read operation otherwise than by a 200 or a cache hit.
EndsWithoutData ==
  /\ call'.pc = "done"
  /\ call' # call
  /\ call'.result \notin {"value", "hit"}

Stale(is_search) ==
  /\ Remaining(is_search) <= 1
  /\ ResetEpoch(is_search) <= now

\* C39: a call that finds its bucket with remaining <= 1 and a reset epoch
\* that is not in the future (the initial 0 included) neither sleeps nor
\* raises: its first attempt is dispatched in that step, and the count is
\* left at its stale value, which only the arrival of a response on that
\* bucket changes.
C39_StaleResetPasses ==
  /\ [][\A c \in Callers, b \in BOOLEAN :
          (Starts(c) /\ req'[c].is_search = b /\ Stale(b)) =>
            /\ req'[c].pc = "inflight"
            /\ req'[c].attempt = 0
            /\ req'[c].attempts = 1
            /\ req'[c].wake = 0
            /\ req'[c].slept = 0
            /\ now' = now
            /\ Remaining(b)' = Remaining(b)
            /\ ResetEpoch(b)' = ResetEpoch(b)]_vars
  /\ [][\A b \in BOOLEAN :
          (Stale(b) /\ Remaining(b)' # Remaining(b)) =>
            \E c \in Callers : /\ req[c].pc = "inflight"
                                /\ req[c].is_search = b
                                /\ req'[c].status # 0]_vars
  /\ [](\A remaining \in {0, 1}, reset_time \in {0, now - 1, now} :
          _check_rate_limit(remaining, reset_time, now).kind = "pass")

\* A first attempt is in flight that its call dispatched at once although
\* the bucket was at 1 and the reset epoch had passed.
C39_Witness ==
  \E c \in Callers :
    /\ req[c].pc = "inflight"
    /\ req[c].attempt = 0
    /\ req[c].gate = "pass"
    /\ req[c].seen_remaining = 1
    /\ Stale(req[c].is_search)
    /\ ResetEpoch(req[c].is_search) < now

(***************************************************************************)
(* Properties of the requests that start a pipeline                        *)
(***************************************************************************)

\* C37: at any time at most one background task of the job has not
\* returned, under any interleaving of start and find-more requests.
C37_AtMostOnePipelineActive ==
  Cardinality({p \in DOMAIN pipelines : Active(p)}) <= 1

\* What does hold of the requests: a request for a running job is refused
\* and spawns nothing, an accepted one commits running in the step that
\* spawns its task, and at most one task has not yet committed the status
\* its start_job ends with, which is the case exactly while the job is
\* running.
RequestsGuarded ==
  /\ [](Cardinality({p \in DOMAIN pipelines : Unsettled(p)}) <= 1)
  /\ []((job_status = "running") <=> (\E p \in DOMAIN pipelines : Unsettled(p)))
  /\ [][(job_status = "running" /\ response' # response) =>
          /\ response' = 400
          /\ pipelines' = pipelines]_vars
  /\ [][Len(pipelines') > Len(pipelines) =>
          /\ job_status # "running"
          /\ job_status' = "running"
          /\ response' = 200]_vars

(***************************************************************************)
(* Properties of two jobs running at once                                  *)
(***************************************************************************)

\* C31: the runs of two jobs are isolated: a run accepts none of the
\* usernames it was seeded with, builds its strategies with its own job's
\* location, and skips a username only if the run was seeded with it or
\* has accepted it itself.
C31_RunsIsolated ==
  \A j \in Jobs :
    /\ runs[j].accepted \cap runs[j].existing_usernames = {}
    /\ runs[j].pc \in {"searching", "done"} =>
         runs[j].strategy_location = runs[j].location
    /\ runs[j].skipped \subseteq
         (runs[j].existing_usernames \cup runs[j].accepted)

(***************************************************************************)
(* Properties of concurrent reads of one profile                           *)
(***************************************************************************)

\* C35: a get_user call is served from the cache only by a live entry of
\* its key; a call that finds none starts a request of its own, whether or
\* not another strategy's request for the same key is in flight, so two
\* requests for one key can be in flight together.  Every 200 that arrives
\* replaces whatever entry the key has by one stamped with the time of its
\* arrival, so the later response overwrites the earlier one's entry, and
\* a key never has two entries.
C35_NoCoalescing ==
  /\ [](\A u \in Users : Cardinality(EntriesOf(u)) <= 1)
  /\ [][\A c \in Strategies, u \in Users :
          (calls[c].pc # "request" /\ calls'[c] # calls[c] /\
           calls'[c].username = u) =>
            IF \E e \in EntriesOf(u) : ~Expired(now - e.timestamp, UserTtl)
            THEN /\ calls'[c].result = "hit"
                 /\ started' = started
            ELSE /\ calls'[c].result # "hit"
                 /\ started' = started + 1
                 /\ req'[c].pc \in {"inflight", "gate_sleep", "raised"}]_vars
  /\ [][\A c \in Strategies, u \in Users :
          (calls[c].pc = "request" /\ calls'[c].pc = "done" /\
           calls'[c].result = "value" /\ calls[c].username = u) =>
            {e \in caches'._user_cache : e.key = cache_key("get_user", u)} =
              {[key |-> cache_key("get_user", u), value |-> now,
                timestamp |-> now]}]_vars

\* Two requests were started, one by each strategy and for the same
\* username, the second while the first was pending; both were answered
\* 200 less than a lifetime apart, and the entry is that of the later
\* answer.
C35_Witness ==
  /\ started = 2
  /\ calls[1].pc = "done"
  /\ calls[2].pc = "done"
  /\ calls[1].username = calls[2].username
  /\ calls[1].result = "value"
  /\ calls[2].result = "value"
  /\ calls[1].value < calls[2].value
  /\ calls[2].value - calls[1].value < UserTtl
  /\ EntriesOf(calls[1].username) =
       {[key |-> cache_key("get_user", calls[1].username),
         value |-> calls[2].value, timestamp |-> calls[2].value]}

====
